---- MODULE Spec2Model ----
(***************************************************************************)
(* Model of the realtime relay of src/main.py: the /media-stream handler   *)
(* handle_media_stream (its two read loops receive_from_twilio and         *)
(* send_to_twilio, the cancel-and-finalize tail), the process-wide         *)
(* TranscriptionService and the call_mapping registry.                     *)
(*                                                                         *)
(* Strings are Python strings.  Audio lengths are counted in units of      *)
(* min_audio_length bytes (one downstream frame decodes to one unit).      *)
(* Wall-clock tests of the service (processing_interval,                   *)
(* continuous_interval) are choices of the environment.                    *)
(***************************************************************************)
EXTENDS Integers, Sequences, FiniteSets, TLC

\* ------------------------------------------------------------------ bounds
MaxLines == 2        \* lines kept in full_transcription
MaxFrames == 1       \* audio messages of a session, both directions together
MaxAudio == 2        \* the same in a session that only relays audio
MaxLen == 4          \* length of the sequences handed to the dedup step alone
MaxSessions == 2     \* media streams one process serves one after the other
MaxCalls == 6        \* calls of send_audio_for_transcription the service gets
MaxOther == 2        \* messages of a type no branch acts on, in a session fed some

\* ------------------------------------------------------- program constants
max_errors == 3
min_audio_length == 1

\* --------------------------------------------------------------- input sets
None == "None"
AITexts == {"", " ", "P0"}
UserTexts == {"Um ", "I feel good"}
WhisperTexts == {"", "I feel good "}
StreamSids == {"MZ1"}
CallSids == {"CA1"}
\* the SIDs of the calls of a process that initiates two
RegisteredSids == {"CA1", "CA2"}
\* base64 payloads: canonical, canonical with a trailing line break, bad padding
Payloads == {"QUI=", "QUI=\n", "QUI"}
\* payloads of the downstream frames
FramePayloads == {"QUI=", "QUI"}

\* ------------------------------------------------------------ pure helpers
\* str.strip() on the texts of the model
strip(t) ==
    CASE t = " " -> ""
      [] t = "Um " -> "Um"
      [] t = "I feel good " -> "I feel good"
      [] OTHER -> t

\* base64.b64decode (validate=False): characters outside the alphabet are
\* discarded, a wrong padding raises binascii.Error
b64decode(p) ==
    CASE p = "QUI=" -> "AB"
      [] p = "QUI=\n" -> "AB"
      [] OTHER -> "binascii.Error"

b64encode(d) ==
    CASE d = "AB" -> "QUI="
      [] OTHER -> ""

\* "\n".join(lines)
RECURSIVE join(_)
join(lines) ==
    IF lines = << >> THEN ""
    ELSE IF Len(lines) = 1 THEN lines[1]
    ELSE lines[1] \o "\n" \o join(Tail(lines))

Range(s) == {s[i] : i \in DOMAIN s}

\* an item is dropped only when it repeats the item just before it
append_unless_adjacent(unique, item) ==
    IF unique # << >> /\ unique[Len(unique)] = item THEN unique
    ELSE Append(unique, item)

\* a new item is put in front
prepend_unique(unique, item) ==
    IF item \in Range(unique) THEN unique ELSE <<item>> \o unique

\* lines 877-879: the body of the loop; seen is the set of the items of
\* unique_transcription
append_unique(unique, item) ==
    IF item \notin Range(unique) THEN Append(unique, item) ELSE unique

\* lines 874-879: the loop from position i on
RECURSIVE dedup_from(_, _, _)
dedup_from(items, i, unique) ==
    IF i > Len(items) THEN unique
    ELSE dedup_from(items, i + 1, append_unique(unique, items[i]))

remove_duplicates(items) == dedup_from(items, 1, << >>)

\* ------------------------------------------------- TranscriptionService
\* The service object is a record: state, error_count, task (the
\* processing_task: "none", "running", "cancelling" after cancel() and
\* before the task next runs, "done"), alive (the processing tasks created
\* by create_task that have not ended), queue (chunks in audio_queue),
\* accumulated and continuous (audio lengths), buffer.  sending_task is
\* never assigned and stays None.
ServiceInit ==
    [state |-> "closed", error_count |-> 0, task |-> "none", alive |-> 0,
     queue |-> 0, accumulated |-> 0, continuous |-> 0, buffer |-> << >>]

\* start() without the test of the state at line 198
start_from_any_state(svc) ==
    [svc |-> [svc EXCEPT !.state = "ready", !.error_count = 0,
                         !.task = IF svc.task \in {"none", "done"}
                                  THEN "running" ELSE svc.task,
                         !.alive = IF svc.task \in {"none", "done"}
                                   THEN @ + 1 ELSE @],
     ret |-> "True"]

\* start() creating a processing task without the test of line 211
start_always_creating(svc) ==
    IF svc.state # "closed"
    THEN [svc |-> svc, ret |-> None]
    ELSE [svc |-> [svc EXCEPT !.state = "ready", !.error_count = 0,
                              !.task = "running", !.alive = @ + 1],
          ret |-> "True"]

\* start(): OPENAI_API_KEY is set in every running process (the module
\* raises at import without it), "initializing" is left before any await.
start(svc) ==
    IF svc.state # "closed"
    THEN [svc |-> svc, ret |-> None]
    ELSE [svc |-> [svc EXCEPT !.state = "ready", !.error_count = 0,
                              !.task = IF svc.task \in {"none", "done"}
                                       THEN "running" ELSE svc.task,
                              !.alive = IF svc.task \in {"none", "done"}
                                        THEN @ + 1 ELSE @],
          ret |-> "True"]

\* stop() emptying the transcript buffer and the continuous audio as well
stop_clearing_all(svc) ==
    IF svc.state = "closed"
    THEN svc
    ELSE [svc EXCEPT !.task = IF svc.task = "running" THEN "cancelling"
                              ELSE svc.task,
                     !.state = "closed", !.error_count = 0,
                     !.accumulated = 0, !.continuous = 0, !.buffer = << >>]

\* stop(), lines 226-245; sending_task is None, so line 239 cancels nothing
stop(svc) ==
    IF svc.state = "closed"
    THEN svc
    ELSE [svc EXCEPT !.task = IF svc.task = "running" THEN "cancelling"
                              ELSE svc.task,
                     !.state = "closed", !.error_count = 0,
                     !.accumulated = 0]

\* lines 271-279: decode and queue
enqueue(svc, audio_data) ==
    IF b64decode(audio_data) = "binascii.Error"
    THEN [svc |-> svc, ret |-> "False"]
    ELSE [svc |-> [svc EXCEPT !.queue = svc.queue + 1], ret |-> "True"]

send_audio(svc, audio_data) ==
    LET s1 == IF svc.state = "closed" THEN start(svc)
              ELSE [svc |-> svc, ret |-> "True"]
    IN  IF s1.ret # "True" THEN [svc |-> s1.svc, ret |-> "False"]
        ELSE IF s1.svc.state = "error"
        THEN LET counted == [s1.svc EXCEPT !.error_count = s1.svc.error_count + 1]
             IN  IF counted.error_count > max_errors
                 THEN [svc |-> stop(counted), ret |-> "False"]
                 ELSE LET s2 == start(stop(counted))
                      IN  IF s2.ret # "True"
                          THEN [svc |-> s2.svc, ret |-> "False"]
                          ELSE enqueue(s2.svc, audio_data)
        ELSE enqueue(s1.svc, audio_data)

send_audio_for_transcription(svc, audio_data) ==
    LET s1 == IF svc.state = "closed" THEN start(svc)
              ELSE [svc |-> svc, ret |-> "True"]
    IN  IF s1.ret # "True" THEN [svc |-> s1.svc, ret |-> "False"]
        ELSE send_audio(s1.svc, audio_data)

\* what the conversion and the HTTP call of _transcribe_audio come to: a
\* failure (conversion failed, status other than 200, exception) or a 200
\* answer with its text
TranscribeOutcomes ==
    {[status |-> 500, text |-> ""]} \cup
    {[status |-> 200, text |-> t] : t \in WhisperTexts}

\* lines 347-547 of _transcribe_audio: what follows the length check
transcribe_result(svc, is_continuous, outcome) ==
    IF outcome.status # 200
    THEN [svc |-> [svc EXCEPT !.state = "error"], ret |-> "False"]
    ELSE IF outcome.text = ""
    THEN [svc |-> svc, ret |-> None]
    ELSE IF is_continuous
    THEN [svc |-> IF strip(outcome.text) # ""
                  THEN [svc EXCEPT !.buffer = <<"User: " \o strip(outcome.text)>>]
                  ELSE svc,
          ret |-> "True"]
    ELSE [svc |-> [svc EXCEPT !.buffer = Append(svc.buffer, "User: " \o outcome.text)],
          ret |-> "True"]

_transcribe_audio(svc, audio_len, is_continuous, outcome) ==
    IF audio_len < min_audio_length
    THEN [svc |-> svc, ret |-> "False"]
    ELSE transcribe_result(svc, is_continuous, outcome)

\* ------------------------------------------------------------------ state
VARIABLES
    pc,                     \* position of handle_media_stream
    stream_sid,             \* line 689
    full_transcription,     \* line 690
    websocket_closed,       \* line 691
    twilio_receiver,        \* task of receive_from_twilio
    openai_sender,          \* task of send_to_twilio
    twilio_conn,            \* the downstream socket: "open" or "closed"
    openai_conn,            \* openai_ws: "none", "open" or "closed"
    openai_sent,            \* messages sent on openai_ws, in order
    twilio_sent,            \* messages sent on the downstream socket, in order
    inbound,                \* the session's history: what the two loops have
                            \* read so far, the audio messages still to come,
                            \* the sessions the process has served before this
                            \* one, the service's buffer when line 838 was
                            \* reached, the messages of a type no branch acts
                            \* on still to come and the channels on which
                            \* one has been read
    final_transcription,    \* line 840
    unique_transcription,   \* line 875
    transcription_text,     \* line 881
    file_writes,            \* the open/write calls of lines 903-904, in order
    last_transcription_text,\* global of line 886
    call_mapping,           \* global of lines 168-171
    supabase_available,     \* flag imported at line 44
    reply,                  \* what the last collaborator or endpoint call answered,
                            \* or the collaborator calls the last finalization made
    db,                     \* rows of the store: calls and transcriptions
    transcription_service,  \* global of line 559
    bg_tasks                \* send_audio_for_transcription tasks not yet run

vars ==
    <<pc, stream_sid, full_transcription, websocket_closed, twilio_receiver,
      openai_sender, twilio_conn, openai_conn, openai_sent, twilio_sent, inbound,
      final_transcription, unique_transcription, transcription_text,
      file_writes, last_transcription_text, call_mapping, supabase_available, reply,
      db, transcription_service, bg_tasks>>

session_vars ==
    <<pc, stream_sid, full_transcription, websocket_closed, twilio_receiver,
      openai_sender, twilio_conn, openai_conn, openai_sent, twilio_sent, inbound>>

final_vars ==
    <<final_transcription, unique_transcription, transcription_text,
      file_writes, last_transcription_text>>

store_vars == <<call_mapping, supabase_available, db, reply>>

\* nothing has been asked of the collaborator or of the endpoints yet
NoReply == [op |-> "none"]

\* the state after lines 686-695 of a handler, in a process that has served
\* nothing yet; the store is reachable or not for the life of the process
SessionStart(audio, other) ==
    /\ pc = "accepted"
    /\ stream_sid = None
    /\ full_transcription = << >>
    /\ websocket_closed = FALSE
    /\ twilio_receiver = "unstarted"
    /\ openai_sender = "unstarted"
    /\ twilio_conn = "open"
    /\ openai_conn = "none"
    /\ openai_sent = << >>
    /\ twilio_sent = << >>
    /\ inbound = [frames |-> << >>, chunks |-> << >>, finals |-> << >>,
                  audio_left |-> audio, served |-> 0,
                  at_finalize |-> << >>, other_left |-> other, ignored |-> {}]
    /\ final_transcription = << >>
    /\ unique_transcription = << >>
    /\ transcription_text = None
    /\ file_writes = << >>
    /\ last_transcription_text = None

SessionInit == SessionStart(MaxFrames, 0)

Init ==
    /\ SessionInit
    /\ call_mapping = [call_sid_to_info |-> << >>, stream_sid_to_call_sid |-> << >>]
    /\ supabase_available \in BOOLEAN
    /\ reply = NoReply
    /\ db = [calls |-> << >>, transcriptions |-> << >>]
    /\ transcription_service = ServiceInit
    /\ bg_tasks = << >>

\* lines 683-695 once more: the process accepts the next media stream after
\* a handler has ended; the handler's locals start afresh, the module's
\* globals (transcription_service, call_mapping, last_transcription_text),
\* the tasks still pending, the store and the files written stay.  The
\* next caller sends no audio.
accept_next ==
    /\ pc \in {"returned", "failed"}
    /\ inbound.served + 1 < MaxSessions
    /\ pc' = "accepted"
    /\ stream_sid' = None
    /\ full_transcription' = << >>
    /\ websocket_closed' = FALSE
    /\ twilio_receiver' = "unstarted"
    /\ openai_sender' = "unstarted"
    /\ twilio_conn' = "open"
    /\ openai_conn' = "none"
    /\ openai_sent' = << >>
    /\ twilio_sent' = << >>
    /\ inbound' = [frames |-> << >>, chunks |-> << >>, finals |-> << >>,
                   audio_left |-> 0, served |-> inbound.served + 1,
                   at_finalize |-> << >>, other_left |-> 0, ignored |-> {}]
    /\ final_transcription' = << >>
    /\ unique_transcription' = << >>
    /\ transcription_text' = None
    /\ UNCHANGED <<file_writes, last_transcription_text, store_vars,
                   transcription_service, bg_tasks>>

\* ------------------------------------------------------- call initiation
\* a dict as a function: d[k] = v added or replaced
put(d, k, v) == [x \in DOMAIN d \cup {k} |-> IF x = k THEN v ELSE d[x]]

CallIdOf(call_sid) == "db-" \o call_sid

\* call_user, lines 600-680, for the call Twilio names call_sid: with the
\* store reachable create_call inserts a row (or throws, and the dummy call
\* is used); the registry entry is written for a real row only.  A call is
\* initiated before Twilio opens its media stream.
call_user(call_sid) ==
    /\ pc = "accepted"
    /\ call_sid \notin DOMAIN call_mapping.call_sid_to_info
    /\ \E created \in BOOLEAN :
         IF supabase_available /\ created
         THEN /\ db' = [db EXCEPT !.calls = put(db.calls, CallIdOf(call_sid), "initiated")]
              /\ call_mapping' =
                   [call_mapping EXCEPT !.call_sid_to_info =
                      put(call_mapping.call_sid_to_info, call_sid,
                          [call_id |-> CallIdOf(call_sid),
                           timestamp |-> Cardinality(DOMAIN call_mapping.call_sid_to_info) + 1])]
         ELSE /\ created = FALSE
              /\ UNCHANGED <<db, call_mapping>>
    /\ UNCHANGED <<session_vars, final_vars, supabase_available, reply,
                   transcription_service, bg_tasks>>

\* ------------------------------------------------------ session start-up
\* Connect entered again after a failure
Connect_retrying ==
    /\ pc \in {"accepted", "failed"}
    /\ \E ok \in BOOLEAN :
         /\ pc' = IF ok THEN "connected" ELSE "failed"
         /\ openai_conn' = IF ok THEN "open" ELSE "none"
    /\ UNCHANGED <<stream_sid, full_transcription, websocket_closed,
                   twilio_receiver, openai_sender, twilio_conn, openai_sent,
                   twilio_sent, inbound, final_vars, store_vars, transcription_service,
                   bg_tasks>>

\* lines 697-703: websockets.connect succeeds, or raises and the handler ends
Connect ==
    /\ pc = "accepted"
    /\ \E ok \in BOOLEAN :
         /\ pc' = IF ok THEN "connected" ELSE "failed"
         /\ openai_conn' = IF ok THEN "open" ELSE "none"
    /\ UNCHANGED <<stream_sid, full_transcription, websocket_closed,
                   twilio_receiver, openai_sender, twilio_conn, openai_sent,
                   twilio_sent, inbound, final_vars, store_vars, transcription_service,
                   bg_tasks>>

\* lines 704 and 965-980: the session.update message; a send on a connection
\* lost meanwhile raises out of the handler
send_session_update ==
    /\ pc = "connected"
    /\ IF openai_conn = "open"
       THEN /\ openai_sent' = Append(openai_sent, [type |-> "session.update"])
            /\ pc' = "configured"
       ELSE /\ pc' = "failed"
            /\ UNCHANGED openai_sent
    /\ UNCHANGED <<stream_sid, full_transcription, websocket_closed,
                   twilio_receiver, openai_sender, twilio_conn, openai_conn,
                   twilio_sent, inbound, final_vars, store_vars, transcription_service,
                   bg_tasks>>

\* the tasks created before the configuration is sent
StartTasks_unconfigured ==
    /\ pc \in {"connected", "configured"}
    /\ pc' = "waiting"
    /\ twilio_receiver' = "running"
    /\ openai_sender' = "running"
    /\ UNCHANGED <<stream_sid, full_transcription, websocket_closed,
                   twilio_conn, openai_conn, openai_sent, twilio_sent, inbound,
                   final_vars, store_vars, transcription_service, bg_tasks>>

\* lines 820-826: both tasks created, the handler waits
StartTasks ==
    /\ pc = "configured"
    /\ pc' = "waiting"
    /\ twilio_receiver' = "running"
    /\ openai_sender' = "running"
    /\ UNCHANGED <<stream_sid, full_transcription, websocket_closed,
                   twilio_conn, openai_conn, openai_sent, twilio_sent, inbound,
                   final_vars, store_vars, transcription_service, bg_tasks>>

\* the peers: either side may drop its connection at any time (once both
\* loops have ended nothing reads the connections any more)
TwilioDisconnect ==
    /\ twilio_conn = "open"
    /\ pc \in {"connected", "configured", "waiting"}
    /\ twilio_conn' = "closed"
    /\ UNCHANGED <<pc, stream_sid, full_transcription, websocket_closed,
                   twilio_receiver, openai_sender, openai_conn, openai_sent,
                   twilio_sent, inbound, final_vars, store_vars, transcription_service,
                   bg_tasks>>

OpenAIDisconnect ==
    /\ openai_conn = "open"
    /\ pc \in {"connected", "configured", "waiting"}
    /\ openai_conn' = "closed"
    /\ UNCHANGED <<pc, stream_sid, full_transcription, websocket_closed,
                   twilio_receiver, openai_sender, twilio_conn, openai_sent,
                   twilio_sent, inbound, final_vars, store_vars, transcription_service,
                   bg_tasks>>

\* ------------------------------------------------ downstream read loop
\* A message is the dict json.loads gives; [raw |-> ...] is a text that is
\* not JSON, on which json.loads raises.
is_json(message) == "raw" \notin DOMAIN message

MediaMessages ==
    {[event |-> "media", media |-> [payload |-> p]] : p \in FramePayloads}

StartMessages ==
    {[event |-> "start", start |-> [streamSid |-> s]] : s \in StreamSids} \cup
    {[event |-> "start", start |-> [streamSid |-> s, callSid |-> c]] :
        s \in StreamSids, c \in CallSids}

DownMessages ==
    MediaMessages \cup StartMessages \cup {[event |-> "mark"], [raw |-> "{"]}

FramesForwarded ==
    Cardinality({i \in DOMAIN openai_sent :
                    openai_sent[i].type = "input_audio_buffer.append"})

\* lines 751-762: the finally block of receive_from_twilio
receive_finally ==
    /\ websocket_closed' = TRUE
    /\ transcription_service' = stop(transcription_service)

\* receive_from_twilio with the payload decoded and encoded again on its way
\* upstream
receive_from_twilio_reencoding(message) ==
    /\ twilio_receiver = "running"
    /\ twilio_conn = "open"
    /\ IF ~is_json(message) \/ "event" \notin DOMAIN message
       THEN /\ twilio_receiver' = "done"
            /\ receive_finally
            /\ UNCHANGED <<stream_sid, openai_sent, bg_tasks, call_mapping,
                           inbound>>
       ELSE IF message.event = "media"
       THEN /\ inbound.audio_left > 0
            /\ inbound' = [inbound EXCEPT
                             !.frames = Append(@, message.media.payload),
                             !.audio_left = @ - 1]
            /\ IF openai_conn = "open"
               THEN /\ openai_sent' = Append(openai_sent,
                                        [type |-> "input_audio_buffer.append",
                                         audio |-> b64encode(b64decode(
                                                      message.media.payload))])
                    /\ bg_tasks' = Append(bg_tasks, message.media.payload)
               ELSE UNCHANGED <<openai_sent, bg_tasks>>
            /\ UNCHANGED <<twilio_receiver, websocket_closed, stream_sid,
                           transcription_service, call_mapping>>
       ELSE IF message.event = "start"
       THEN /\ stream_sid' = message.start.streamSid
            /\ call_mapping' =
                 IF "callSid" \in DOMAIN message.start
                 THEN [call_mapping EXCEPT !.stream_sid_to_call_sid =
                         put(call_mapping.stream_sid_to_call_sid,
                             message.start.streamSid, message.start.callSid)]
                 ELSE call_mapping
            /\ UNCHANGED <<twilio_receiver, websocket_closed, openai_sent,
                           bg_tasks, transcription_service, inbound>>
       ELSE /\ inbound.other_left > 0
            /\ inbound' = [inbound EXCEPT !.ignored = @ \cup {"downstream"},
                                          !.other_left = @ - 1]
            /\ UNCHANGED <<twilio_receiver, websocket_closed, stream_sid,
                           openai_sent, bg_tasks, transcription_service,
                           call_mapping>>
    /\ UNCHANGED <<pc, full_transcription, openai_sender, twilio_conn,
                   openai_conn, twilio_sent, final_vars, supabase_available, db,
                   reply>>

\* receive_from_twilio leaving its loop on a message of another type
receive_from_twilio_strict(message) ==
    /\ twilio_receiver = "running"
    /\ twilio_conn = "open"
    /\ IF ~is_json(message) \/ "event" \notin DOMAIN message
       THEN /\ twilio_receiver' = "done"
            /\ receive_finally
            /\ UNCHANGED <<stream_sid, openai_sent, bg_tasks, call_mapping,
                           inbound>>
       ELSE IF message.event = "media"
       THEN /\ inbound.audio_left > 0
            /\ inbound' = [inbound EXCEPT
                             !.frames = Append(@, message.media.payload),
                             !.audio_left = @ - 1]
            /\ IF openai_conn = "open"
               THEN /\ openai_sent' = Append(openai_sent,
                                        [type |-> "input_audio_buffer.append",
                                         audio |-> message.media.payload])
                    /\ bg_tasks' = Append(bg_tasks, message.media.payload)
               ELSE UNCHANGED <<openai_sent, bg_tasks>>
            /\ UNCHANGED <<twilio_receiver, websocket_closed, stream_sid,
                           transcription_service, call_mapping>>
       ELSE IF message.event = "start"
       THEN /\ stream_sid' = message.start.streamSid
            /\ call_mapping' =
                 IF "callSid" \in DOMAIN message.start
                 THEN [call_mapping EXCEPT !.stream_sid_to_call_sid =
                         put(call_mapping.stream_sid_to_call_sid,
                             message.start.streamSid, message.start.callSid)]
                 ELSE call_mapping
            /\ UNCHANGED <<twilio_receiver, websocket_closed, openai_sent,
                           bg_tasks, transcription_service, inbound>>
       ELSE /\ inbound.other_left > 0
            /\ inbound' = [inbound EXCEPT !.ignored = @ \cup {"downstream"},
                                          !.other_left = @ - 1]
            /\ twilio_receiver' = "done"
            /\ receive_finally
            /\ UNCHANGED <<stream_sid, openai_sent, bg_tasks, call_mapping>>
    /\ UNCHANGED <<pc, full_transcription, openai_sender, twilio_conn,
                   openai_conn, twilio_sent, final_vars, supabase_available, db,
                   reply>>

\* one iteration of the loop of lines 710-744 on an inbound message; what
\* json.loads or a missing key raises ends the loop through lines 748-762
receive_from_twilio(message) ==
    /\ twilio_receiver = "running"
    /\ twilio_conn = "open"
    /\ IF ~is_json(message) \/ "event" \notin DOMAIN message
       THEN /\ twilio_receiver' = "done"
            /\ receive_finally
            /\ UNCHANGED <<stream_sid, openai_sent, bg_tasks, call_mapping,
                           inbound>>
       ELSE IF message.event = "media"
       THEN /\ inbound.audio_left > 0
            /\ inbound' = [inbound EXCEPT
                             !.frames = Append(@, message.media.payload),
                             !.audio_left = @ - 1]
            /\ IF openai_conn = "open"
               THEN /\ openai_sent' = Append(openai_sent,
                                        [type |-> "input_audio_buffer.append",
                                         audio |-> message.media.payload])
                    /\ bg_tasks' = Append(bg_tasks, message.media.payload)
               ELSE UNCHANGED <<openai_sent, bg_tasks>>
            /\ UNCHANGED <<twilio_receiver, websocket_closed, stream_sid,
                           transcription_service, call_mapping>>
       ELSE IF message.event = "start"
       THEN /\ stream_sid' = message.start.streamSid
            /\ call_mapping' =
                 IF "callSid" \in DOMAIN message.start
                 THEN [call_mapping EXCEPT !.stream_sid_to_call_sid =
                         put(call_mapping.stream_sid_to_call_sid,
                             message.start.streamSid, message.start.callSid)]
                 ELSE call_mapping
            /\ UNCHANGED <<twilio_receiver, websocket_closed, openai_sent,
                           bg_tasks, transcription_service, inbound>>
       ELSE /\ inbound.other_left > 0
            /\ inbound' = [inbound EXCEPT !.ignored = @ \cup {"downstream"},
                                          !.other_left = @ - 1]
            /\ UNCHANGED <<twilio_receiver, websocket_closed, stream_sid,
                           openai_sent, bg_tasks, transcription_service,
                           call_mapping>>
    /\ UNCHANGED <<pc, full_transcription, openai_sender, twilio_conn,
                   openai_conn, twilio_sent, final_vars, supabase_available, db,
                   reply>>

\* the downstream socket has closed: iter_text ends (or raises
\* WebSocketDisconnect, line 745) and the finally block runs
receive_disconnected ==
    /\ twilio_receiver = "running"
    /\ twilio_conn = "closed"
    /\ twilio_receiver' = "done"
    /\ receive_finally
    /\ UNCHANGED <<pc, stream_sid, full_transcription, openai_sender,
                   twilio_conn, openai_conn, openai_sent, twilio_sent, inbound,
                   final_vars, store_vars, bg_tasks>>

\* -------------------------------------------------- upstream read loop
TextEvents ==
    {[type |-> "response.content.part", content |-> t] : t \in AITexts} \cup
    {[type |-> "input_audio_buffer.transcript", transcript |-> t] : t \in UserTexts}

AudioEvents ==
    {[type |-> "response.audio.delta", delta |-> p] : p \in Payloads \cup {""}}

\* events no branch of lines 775-807 acts on, and a text that is not JSON
PlainEvents ==
    {[type |-> "response.content.part"], [type |-> "session.updated"],
     [type |-> "response.done"], [raw |-> "{"]}

OtherEvents ==
    PlainEvents \cup
    {[type |-> "response.audio_transcript.done", transcript |-> "P0"]} \cup
    {[type |-> "conversation.item.input_audio_transcription.completed",
      transcript |-> t] : t \in UserTexts}

UpEvents == TextEvents \cup AudioEvents \cup OtherEvents

\* transcript_line with response.audio_transcript.done taken as an
\* assistant line
transcript_line_with_done(response) ==
    IF response.type = "response.content.part" /\ "content" \in DOMAIN response
    THEN <<"AI: " \o response.content>>
    ELSE IF response.type = "input_audio_buffer.transcript"
            /\ "transcript" \in DOMAIN response
    THEN <<"User: " \o response.transcript>>
    ELSE IF response.type = "response.audio_transcript.done"
    THEN <<"AI: " \o response.transcript>>
    ELSE << >>

\* lines 775-783: the line an event adds to full_transcription, if any
transcript_line(response) ==
    IF response.type = "response.content.part" /\ "content" \in DOMAIN response
    THEN <<"AI: " \o response.content>>
    ELSE IF response.type = "input_audio_buffer.transcript"
            /\ "transcript" \in DOMAIN response
    THEN <<"User: " \o response.transcript>>
    ELSE << >>

\* the history of the upstream loop: the audio chunks it has read (a
\* response.audio.delta with a delta, line 788) and the
\* response.audio_transcript.done events it has read
read_upstream(response) ==
    IF response.type = "response.audio.delta" /\ "delta" \in DOMAIN response
       /\ response.delta # ""
    THEN /\ inbound.audio_left > 0
         /\ inbound' = [inbound EXCEPT !.chunks = Append(@, response.delta),
                                       !.audio_left = @ - 1]
    ELSE IF response.type = "response.audio_transcript.done"
    THEN /\ Len(inbound.finals) < MaxLines
         /\ inbound' = [inbound EXCEPT !.finals = Append(@, response.transcript)]
    ELSE IF response.type \in {"response.content.part",
                               "input_audio_buffer.transcript",
                               "response.audio.delta"}
    THEN UNCHANGED inbound
    ELSE /\ inbound.other_left > 0
         /\ inbound' = [inbound EXCEPT !.ignored = @ \cup {"upstream"},
                                       !.other_left = @ - 1]

\* forward_audio without the test of websocket_closed at line 791
forward_audio_unguarded(response) ==
    IF response.type = "response.audio.delta" /\ "delta" \in DOMAIN response
       /\ response.delta # ""
    THEN IF b64decode(response.delta) = "binascii.Error"
         THEN UNCHANGED <<twilio_sent, websocket_closed>>
         ELSE IF twilio_conn = "open"
         THEN /\ twilio_sent' = Append(twilio_sent,
                    [event |-> "media", streamSid |-> stream_sid,
                     media |-> [payload |-> b64encode(b64decode(response.delta))]])
              /\ UNCHANGED websocket_closed
         ELSE /\ websocket_closed' \in BOOLEAN
              /\ UNCHANGED twilio_sent
    ELSE UNCHANGED <<twilio_sent, websocket_closed>>

\* lines 788-807: the audio chunk of a response.audio.delta event; a failed
\* send on the closed socket sets websocket_closed when the error text names
\* websocket.close, which depends on the server that raises it
forward_audio(response) ==
    IF response.type = "response.audio.delta" /\ "delta" \in DOMAIN response
       /\ response.delta # "" /\ ~websocket_closed
    THEN IF b64decode(response.delta) = "binascii.Error"
         THEN UNCHANGED <<twilio_sent, websocket_closed>>
         ELSE IF twilio_conn = "open"
         THEN /\ twilio_sent' = Append(twilio_sent,
                    [event |-> "media", streamSid |-> stream_sid,
                     media |-> [payload |-> b64encode(b64decode(response.delta))]])
              /\ UNCHANGED websocket_closed
         ELSE /\ websocket_closed' \in BOOLEAN
              /\ UNCHANGED twilio_sent
    ELSE UNCHANGED <<twilio_sent, websocket_closed>>

\* send_to_twilio with a prompt sent upstream after each user line
send_to_twilio_injecting(response) ==
    /\ openai_sender = "running"
    /\ openai_conn = "open"
    /\ IF ~is_json(response) \/ "type" \notin DOMAIN response
       THEN /\ openai_sender' = "done"
            /\ UNCHANGED <<full_transcription, twilio_sent, inbound, websocket_closed,
                           openai_sent>>
       ELSE /\ Len(full_transcription) + Len(transcript_line(response)) <= MaxLines
            /\ full_transcription' = full_transcription \o transcript_line(response)
            /\ openai_sent' =
                  IF response.type = "input_audio_buffer.transcript"
                     /\ transcript_line(response) # << >>
                  THEN Append(openai_sent, [type |-> "conversation.item.create"])
                  ELSE openai_sent
            /\ forward_audio(response)
            /\ read_upstream(response)
            /\ UNCHANGED openai_sender
    /\ UNCHANGED <<pc, stream_sid, twilio_receiver, twilio_conn, openai_conn,
                   final_vars, store_vars, transcription_service, bg_tasks>>

\* send_to_twilio with the new line put in front of the transcript
send_to_twilio_prepending(response) ==
    /\ openai_sender = "running"
    /\ openai_conn = "open"
    /\ IF ~is_json(response) \/ "type" \notin DOMAIN response
       THEN /\ openai_sender' = "done"
            /\ UNCHANGED <<full_transcription, twilio_sent, inbound, websocket_closed>>
       ELSE /\ Len(full_transcription) + Len(transcript_line(response)) <= MaxLines
            /\ full_transcription' = transcript_line(response) \o full_transcription
            /\ forward_audio(response)
            /\ read_upstream(response)
            /\ UNCHANGED openai_sender
    /\ UNCHANGED <<pc, stream_sid, twilio_receiver, twilio_conn, openai_conn,
                   openai_sent, final_vars, store_vars, transcription_service,
                   bg_tasks>>

\* one iteration of the loop of lines 768-807 on an upstream message; what
\* json.loads raises ends the loop through lines 808-817
send_to_twilio(response) ==
    /\ openai_sender = "running"
    /\ openai_conn = "open"
    /\ IF ~is_json(response) \/ "type" \notin DOMAIN response
       THEN /\ openai_sender' = "done"
            /\ UNCHANGED <<full_transcription, twilio_sent, inbound, websocket_closed>>
       ELSE /\ Len(full_transcription) + Len(transcript_line(response)) <= MaxLines
            /\ full_transcription' = full_transcription \o transcript_line(response)
            /\ forward_audio(response)
            /\ read_upstream(response)
            /\ UNCHANGED openai_sender
    /\ UNCHANGED <<pc, stream_sid, twilio_receiver, twilio_conn, openai_conn,
                   openai_sent, final_vars, store_vars, transcription_service,
                   bg_tasks>>

\* the upstream loop staying in its read after openai_ws has closed
send_disconnected_blocked ==
    /\ openai_sender = "running"
    /\ openai_conn = "closed"
    /\ UNCHANGED vars

\* openai_ws has closed: the async for ends, or raises ConnectionClosed into
\* lines 808-817, which only log
send_disconnected ==
    /\ openai_sender = "running"
    /\ openai_conn = "closed"
    /\ openai_sender' = "done"
    /\ UNCHANGED <<pc, stream_sid, full_transcription, websocket_closed,
                   twilio_receiver, twilio_conn, openai_conn, openai_sent,
                   twilio_sent, inbound, final_vars, store_vars, transcription_service,
                   bg_tasks>>

\* ------------------------------------------- transcription service tasks
\* the oldest task created at line 724 runs send_audio_for_transcription
\* (lines 1117-1127); nothing in it suspends, the lock is never contended
run_transcription_task ==
    /\ bg_tasks # << >>
    /\ transcription_service' =
         send_audio_for_transcription(transcription_service, Head(bg_tasks)).svc
    /\ bg_tasks' = Tail(bg_tasks)
    /\ UNCHANGED <<session_vars, final_vars, store_vars>>

\* lines 288-292: one chunk leaves the queue
take_chunk(svc) ==
    IF svc.queue > 0
    THEN [svc EXCEPT !.queue = svc.queue - 1,
                     !.accumulated = svc.accumulated + 1,
                     !.continuous = svc.continuous + 1]
    ELSE svc

\* lines 294-308: the batch transcription, when its interval has passed
batch_step(svc, due, outcome) ==
    IF due /\ svc.accumulated >= min_audio_length
    THEN [_transcribe_audio(svc, svc.accumulated, FALSE, outcome).svc
            EXCEPT !.accumulated = 0]
    ELSE svc

\* lines 310-325: the continuous transcription, when its interval has passed
continuous_step(svc, due, outcome) ==
    IF due /\ svc.continuous >= min_audio_length * 3
    THEN LET r == _transcribe_audio(svc, svc.continuous, TRUE, outcome)
         IN  IF r.ret = "True" THEN [r.svc EXCEPT !.continuous = 0] ELSE r.svc
    ELSE svc

\* one iteration of the loop of _process_audio_queue, lines 284-328
_process_audio_queue ==
    /\ transcription_service.task = "running"
    /\ transcription_service' \in
         {continuous_step(batch_step(take_chunk(transcription_service), due1, o1),
                          due2, o2) :
            due1 \in BOOLEAN, due2 \in BOOLEAN,
            o1 \in TranscribeOutcomes, o2 \in TranscribeOutcomes}
    /\ UNCHANGED <<session_vars, final_vars, store_vars, bg_tasks>>

\* lines 330-332: the cancelled task runs again and ends
process_task_cancelled ==
    /\ transcription_service.task = "cancelling"
    /\ transcription_service' = [transcription_service EXCEPT !.task = "done",
                                                               !.alive = @ - 1]
    /\ UNCHANGED <<session_vars, final_vars, store_vars, bg_tasks>>

\* --------------------------------------------------- the handler's tail
\* the wait returning without cancelling the task still pending
wait_without_cancel ==
    /\ pc = "waiting"
    /\ twilio_receiver = "done" \/ openai_sender = "done"
    /\ pc' = "finalize"
    /\ UNCHANGED <<twilio_receiver, websocket_closed, transcription_service,
                   openai_sender>>
    /\ UNCHANGED <<stream_sid, full_transcription, twilio_conn, openai_conn,
                   openai_sent, twilio_sent, inbound, final_vars, store_vars, bg_tasks>>

\* lines 823-834: the wait returns once a task is done, the other task is
\* cancelled and awaited; a cancelled receive_from_twilio runs its finally
wait_and_cancel ==
    /\ pc = "waiting"
    /\ twilio_receiver = "done" \/ openai_sender = "done"
    /\ pc' = "finalize"
    /\ IF twilio_receiver = "running"
       THEN /\ twilio_receiver' = "cancelled"
            /\ receive_finally
       ELSE UNCHANGED <<twilio_receiver, websocket_closed, transcription_service>>
    /\ openai_sender' = IF openai_sender = "running" THEN "cancelled"
                        ELSE openai_sender
    /\ UNCHANGED <<stream_sid, full_transcription, twilio_conn, openai_conn,
                   openai_sent, twilio_sent, inbound, final_vars, store_vars, bg_tasks>>

\* line 865: str.startswith("User:") on the lines the buffer can hold
startswith_User(line) ==
    line \in {"User: " \o t : t \in UserTexts \cup WhisperTexts
                                   \cup {strip(w) : w \in WhisperTexts}}

\* merge with the buffer's lines ahead of the session's lines in every case
merge_buffer_first(lines, buffer) ==
    IF buffer = << >> THEN lines
    ELSE buffer \o lines

\* merge with a consolidated buffer line taking the place of the session's
\* lines
merge_consolidated_only(lines, buffer) ==
    IF buffer = << >> THEN lines
    ELSE IF Len(buffer) = 1 /\ startswith_User(buffer[1])
    THEN <<buffer[1]>>
    ELSE lines \o buffer

\* lines 840-871: the session's lines merged with the service's buffer
merge(lines, buffer) ==
    IF buffer = << >> THEN lines
    ELSE IF Len(buffer) = 1 /\ startswith_User(buffer[1])
    THEN <<buffer[1]>> \o lines
    ELSE lines \o buffer

\* datetime.now().strftime("%Y%m%d_%H%M%S"), line 900: the wall clock read to
\* the second.  Clock lists consecutive seconds; the process's first write
\* falls in the first of them, a later write in the second of the write
\* before it or in the next one.
Clock == <<"20250101_120000", "20250101_120001">>

\* line 901
filename(timestamp) == "transcription_" \o timestamp \o ".txt"

now ==
    IF file_writes = << >> THEN {Clock[1]}
    ELSE LET last == CHOOSE i \in DOMAIN Clock :
                        filename(Clock[i]) = file_writes[Len(file_writes)].name
         IN  {Clock[i] : i \in {last, last + 1} \cap DOMAIN Clock}

\* the flush without the fallback file of lines 897-907
flush_without_file(merged) ==
    /\ final_transcription' = merged
    /\ unique_transcription' = remove_duplicates(merged)
    /\ transcription_text' = join(remove_duplicates(merged))
    /\ last_transcription_text' = join(remove_duplicates(merged))
    /\ UNCHANGED file_writes

\* lines 861-908: merge, dedup, join, the global, the fallback file
flush(merged) ==
    /\ final_transcription' = merged
    /\ unique_transcription' = remove_duplicates(merged)
    /\ transcription_text' = join(remove_duplicates(merged))
    /\ last_transcription_text' = join(remove_duplicates(merged))
    /\ \E written \in BOOLEAN, timestamp \in now :
         file_writes' = Append(file_writes,
                           [name |-> filename(timestamp),
                            content |-> join(remove_duplicates(merged)),
                            written |-> written])

\* finalize with the test of line 838 on the session's lines alone
finalize_ignoring_buffer ==
    /\ pc = "finalize"
    /\ IF full_transcription = << >>
       THEN /\ pc' = "close"
            /\ UNCHANGED final_vars
       ELSE IF transcription_service.buffer # << >>
               /\ transcription_service.continuous >= min_audio_length
       THEN /\ pc' = "transcribe"
            /\ UNCHANGED final_vars
       ELSE /\ pc' = "persist"
            /\ flush(merge(full_transcription, transcription_service.buffer))
    /\ UNCHANGED <<stream_sid, full_transcription, websocket_closed,
                   twilio_receiver, openai_sender, twilio_conn, openai_conn,
                   openai_sent, twilio_sent, inbound, store_vars, transcription_service,
                   bg_tasks>>

\* finalize with the test of line 838 asking for both lists
finalize_requiring_both ==
    /\ pc = "finalize"
    /\ IF full_transcription = << >> \/ transcription_service.buffer = << >>
       THEN /\ pc' = "close"
            /\ UNCHANGED final_vars
       ELSE IF transcription_service.buffer # << >>
               /\ transcription_service.continuous >= min_audio_length
       THEN /\ pc' = "transcribe"
            /\ UNCHANGED final_vars
       ELSE /\ pc' = "persist"
            /\ flush(merge(full_transcription, transcription_service.buffer))
    /\ UNCHANGED <<stream_sid, full_transcription, websocket_closed,
                   twilio_receiver, openai_sender, twilio_conn, openai_conn,
                   openai_sent, twilio_sent, inbound, store_vars, transcription_service,
                   bg_tasks>>

\* lines 838-859 (and on to 908 when nothing is awaited)
finalize ==
    /\ pc = "finalize"
    /\ IF full_transcription = << >> /\ transcription_service.buffer = << >>
       THEN /\ pc' = "close"
            /\ UNCHANGED final_vars
       ELSE IF transcription_service.buffer # << >>
               /\ transcription_service.continuous >= min_audio_length
       THEN /\ pc' = "transcribe"
            /\ UNCHANGED final_vars
       ELSE /\ pc' = "persist"
            /\ flush(merge(full_transcription, transcription_service.buffer))
    /\ inbound' = [inbound EXCEPT !.at_finalize = transcription_service.buffer]
    /\ UNCHANGED <<stream_sid, full_transcription, websocket_closed,
                   twilio_receiver, openai_sender, twilio_conn, openai_conn,
                   openai_sent, twilio_sent, store_vars, transcription_service,
                   bg_tasks>>

\* final_transcribe merging the buffer as it was when line 838 was reached
final_transcribe_from_snapshot ==
    /\ pc = "transcribe"
    /\ \E outcome \in TranscribeOutcomes :
         LET svc == transcribe_result(transcription_service, TRUE, outcome).svc
         IN  /\ transcription_service' = svc
             /\ flush(merge(full_transcription, inbound.at_finalize))
    /\ pc' = "persist"
    /\ UNCHANGED <<stream_sid, full_transcription, websocket_closed,
                   twilio_receiver, openai_sender, twilio_conn, openai_conn,
                   openai_sent, twilio_sent, inbound, store_vars, bg_tasks>>

\* lines 851-908: the final continuous transcription awaited at line 854
\* returns (its audio passed the length check when it was called)
final_transcribe ==
    /\ pc = "transcribe"
    /\ \E outcome \in TranscribeOutcomes :
         LET svc == transcribe_result(transcription_service, TRUE, outcome).svc
         IN  /\ transcription_service' = svc
             /\ flush(merge(full_transcription, svc.buffer))
    /\ pc' = "persist"
    /\ UNCHANGED <<stream_sid, full_transcription, websocket_closed,
                   twilio_receiver, openai_sender, twilio_conn, openai_conn,
                   openai_sent, twilio_sent, inbound, store_vars, bg_tasks>>

\* lines 914-938: the call this stream is attributed to
direct_call_id ==
    LET s2c == call_mapping.stream_sid_to_call_sid
        c2i == call_mapping.call_sid_to_info
    IN  IF stream_sid # None /\ stream_sid \in DOMAIN s2c
           /\ s2c[stream_sid] \in DOMAIN c2i
        THEN c2i[s2c[stream_sid]].call_id
        ELSE None

most_recent_call_id ==
    LET c2i == call_mapping.call_sid_to_info
        real == {c \in DOMAIN c2i : c2i[c].call_id # "dummy-call-id"}
    IN  IF real = {} THEN None
        ELSE c2i[CHOOSE c \in real :
                    \A d \in real : c2i[d].timestamp <= c2i[c].timestamp].call_id

\* the fallback of lines 927-938 taking the call registered first
resolved_call_id_oldest ==
    LET c2i == call_mapping.call_sid_to_info
        real == {c \in DOMAIN c2i : c2i[c].call_id # "dummy-call-id"}
    IN  IF direct_call_id # None THEN direct_call_id
        ELSE IF real = {} THEN None
        ELSE c2i[CHOOSE c \in real :
                    \A d \in real : c2i[c].timestamp <= c2i[d].timestamp].call_id

resolved_call_id ==
    IF direct_call_id # None THEN direct_call_id ELSE most_recent_call_id

\* the calls of a finalization with the call updated before its
\* transcription is created
invoked_calls_update_first ==
    IF supabase_available /\ resolved_call_id # None
    THEN <<[op |-> "update_call", call_id |-> resolved_call_id,
            status |-> "completed"],
           [op |-> "create_transcription", call_id |-> resolved_call_id]>>
    ELSE << >>

\* lines 940-953: the collaborator calls a finalization makes, in order;
\* each is awaited and answers, whether or not the store took the row
invoked_calls ==
    IF supabase_available /\ resolved_call_id # None
    THEN <<[op |-> "create_transcription", call_id |-> resolved_call_id],
           [op |-> "update_call", call_id |-> resolved_call_id,
            status |-> "completed"]>>
    ELSE << >>

\* persist_and_close with a failed collaborator call ending the handler
\* before line 961
persist_and_close_raising ==
    /\ pc = "persist"
    /\ reply' = [op |-> "finalization", invoked |-> invoked_calls]
    /\ IF supabase_available /\ resolved_call_id # None
       THEN \E stored \in BOOLEAN, updated \in BOOLEAN :
              /\ db' = [calls |-> IF updated
                                  THEN put(db.calls, resolved_call_id, "completed")
                                  ELSE db.calls,
                        transcriptions |->
                           IF stored
                           THEN Append(db.transcriptions,
                                       [call_id |-> resolved_call_id,
                                        content |-> transcription_text])
                           ELSE db.transcriptions]
              /\ pc' = IF stored /\ updated THEN "returned" ELSE "failed"
              /\ openai_conn' = IF stored /\ updated THEN "closed" ELSE openai_conn
       ELSE /\ pc' = "returned"
            /\ openai_conn' = "closed"
            /\ UNCHANGED db
    /\ UNCHANGED <<stream_sid, full_transcription, websocket_closed,
                   twilio_receiver, openai_sender, twilio_conn, openai_sent,
                   twilio_sent, inbound, final_vars, call_mapping, supabase_available,
                   transcription_service, bg_tasks>>

\* persist_and_close dropping the registry entry of the call it stored
persist_and_close_forgetting ==
    /\ pc = "persist"
    /\ reply' = [op |-> "finalization", invoked |-> invoked_calls]
    /\ pc' = "returned"
    /\ openai_conn' = "closed"
    /\ call_mapping' =
         [call_mapping EXCEPT !.call_sid_to_info =
            LET c2i == call_mapping.call_sid_to_info
            IN  [c \in {d \in DOMAIN c2i : c2i[d].call_id # resolved_call_id}
                    |-> c2i[c]]]
    /\ IF supabase_available /\ resolved_call_id # None
       THEN \E stored \in BOOLEAN, updated \in BOOLEAN :
              db' = [calls |-> IF updated
                               THEN put(db.calls, resolved_call_id, "completed")
                               ELSE db.calls,
                     transcriptions |->
                        IF stored
                        THEN Append(db.transcriptions,
                                    [call_id |-> resolved_call_id,
                                     content |-> transcription_text])
                        ELSE db.transcriptions]
       ELSE UNCHANGED db
    /\ UNCHANGED <<stream_sid, full_transcription, websocket_closed,
                   twilio_receiver, openai_sender, twilio_conn, openai_sent,
                   twilio_sent, inbound, final_vars, supabase_available,
                   transcription_service, bg_tasks>>

\* persist_and_close creating the transcription a second time when the
\* first call answered
persist_and_close_twice ==
    /\ pc = "persist"
    /\ reply' = [op |-> "finalization", invoked |-> invoked_calls]
    /\ pc' = "returned"
    /\ openai_conn' = "closed"
    /\ IF supabase_available /\ resolved_call_id # None
       THEN \E stored \in BOOLEAN, updated \in BOOLEAN :
              db' = [calls |-> IF updated
                               THEN put(db.calls, resolved_call_id, "completed")
                               ELSE db.calls,
                     transcriptions |->
                        IF stored
                        THEN db.transcriptions \o
                               <<[call_id |-> resolved_call_id,
                                  content |-> transcription_text],
                                 [call_id |-> resolved_call_id,
                                  content |-> transcription_text]>>
                        ELSE db.transcriptions]
       ELSE UNCHANGED db
    /\ UNCHANGED <<stream_sid, full_transcription, websocket_closed,
                   twilio_receiver, openai_sender, twilio_conn, openai_sent,
                   twilio_sent, inbound, final_vars, call_mapping, supabase_available,
                   transcription_service, bg_tasks>>

\* lines 910-963: create_transcription then update_call, each of which
\* stores its row or fails inside the client and returns a sentinel; then
\* openai_ws is closed and the handler returns.  Nothing another task
\* changes is read after line 908.
persist_and_close ==
    /\ pc = "persist"
    /\ reply' = [op |-> "finalization", invoked |-> invoked_calls]
    /\ pc' = "returned"
    /\ openai_conn' = "closed"
    /\ IF supabase_available /\ resolved_call_id # None
       THEN \E stored \in BOOLEAN, updated \in BOOLEAN :
              db' = [calls |-> IF updated
                               THEN put(db.calls, resolved_call_id, "completed")
                               ELSE db.calls,
                     transcriptions |->
                        IF stored
                        THEN Append(db.transcriptions,
                                    [call_id |-> resolved_call_id,
                                     content |-> transcription_text])
                        ELSE db.transcriptions]
       ELSE UNCHANGED db
    /\ UNCHANGED <<stream_sid, full_transcription, websocket_closed,
                   twilio_receiver, openai_sender, twilio_conn, openai_sent,
                   twilio_sent, inbound, final_vars, call_mapping, supabase_available,
                   transcription_service, bg_tasks>>

\* lines 961-963 when the block of line 838 is skipped
close ==
    /\ pc = "close"
    /\ pc' = "returned"
    /\ openai_conn' = "closed"
    /\ UNCHANGED <<stream_sid, full_transcription, websocket_closed,
                   twilio_receiver, openai_sender, twilio_conn, openai_sent,
                   twilio_sent, inbound, final_vars, store_vars, transcription_service,
                   bg_tasks>>

\* ------------------------------------------ the persistence collaborator
\* supabase_client.py.  A dict is a record and None the empty record, so
\* that `not x` is DOMAIN x = {}.  ok says whether the store's execute()
\* returned (TRUE) or raised; an operation answers [raised, value, db]:
\* whether it raised to its caller, what it returned, and the rows after it.
\* The users table is not among the rows the model keeps.
NoneValue == [x \in {} |-> TRUE]

CallIds == {CallIdOf(c) : c \in RegisteredSids}
Contents == {"AI: P0", "User: I feel good"}

answer(value, rows) == [raised |-> FALSE, value |-> value, db |-> rows]

\* lines 96-112
create_user(phone_number, ok) ==
    IF ~supabase_available
    THEN answer([id |-> "dummy-user-id", phone_number |-> phone_number], db)
    ELSE IF ok
    THEN answer([id |-> "db-user", phone_number |-> phone_number], db)
    ELSE answer([id |-> "dummy-user-id", phone_number |-> phone_number], db)

\* lines 114-126; known says whether a row has this phone number
get_user_by_phone(phone_number, known, ok) ==
    IF ~supabase_available
    THEN answer([id |-> "dummy-user-id", phone_number |-> phone_number], db)
    ELSE IF ok
    THEN IF known
         THEN answer([id |-> "db-user", phone_number |-> phone_number], db)
         ELSE answer(NoneValue, db)
    ELSE answer([id |-> "dummy-user-id", phone_number |-> phone_number], db)

\* lines 129-163; inserted says whether the insert answered with its row
create_call(user_id, call_sid, inserted, ok) ==
    IF ~supabase_available
    THEN answer([id |-> "dummy-call-id", user_id |-> user_id], db)
    ELSE IF ok
    THEN IF inserted
         THEN answer([id |-> CallIdOf(call_sid), user_id |-> user_id],
                     [db EXCEPT !.calls = put(db.calls, CallIdOf(call_sid),
                                              "initiated")])
         ELSE answer(NoneValue, db)
    ELSE answer([id |-> "dummy-call-id", user_id |-> user_id], db)

\* lines 165-184
update_call(call_id, status, ok) ==
    IF ~supabase_available
    THEN answer([id |-> call_id], db)
    ELSE IF ok
    THEN IF call_id \in DOMAIN db.calls
         THEN answer([id |-> call_id, status |-> status],
                     [db EXCEPT !.calls = put(db.calls, call_id, status)])
         ELSE answer(NoneValue, db)
    ELSE answer([id |-> call_id], db)

\* create_transcription with the store's exception left to the caller
create_transcription_unguarded(call_id, content, ok) ==
    IF ~supabase_available
    THEN answer([id |-> "dummy-transcription-id", call_id |-> call_id], db)
    ELSE IF ok
    THEN answer([call_id |-> call_id, content |-> content],
                [db EXCEPT !.transcriptions =
                    Append(@, [call_id |-> call_id, content |-> content])])
    ELSE [raised |-> TRUE, value |-> NoneValue, db |-> db]

\* lines 199-216
create_transcription(call_id, content, ok) ==
    IF ~supabase_available
    THEN answer([id |-> "dummy-transcription-id", call_id |-> call_id], db)
    ELSE IF ok
    THEN answer([call_id |-> call_id, content |-> content],
                [db EXCEPT !.transcriptions =
                    Append(@, [call_id |-> call_id, content |-> content])])
    ELSE answer([id |-> "dummy-transcription-id", call_id |-> call_id], db)

\* the rows of a call, in the order the store lists them
rows_of(call_id) ==
    SelectSeq(db.transcriptions, LAMBDA row : row.call_id = call_id)

\* lines 218-232
get_transcription_by_call_id(call_id, ok) ==
    IF ~supabase_available
    THEN answer([id |-> "dummy-transcription-id", call_id |-> call_id,
                 content |-> "Transcription not available"], db)
    ELSE IF ok
    THEN IF rows_of(call_id) # << >>
         THEN answer(Head(rows_of(call_id)), db)
         ELSE answer(NoneValue, db)
    ELSE answer([id |-> "dummy-transcription-id", call_id |-> call_id,
                 content |-> "Error retrieving transcription"], db)

\* the operations the relay uses
Operations ==
    {"create_user", "get_user_by_phone", "create_call", "update_call",
     "create_transcription", "get_transcription_by_call_id"}

operation(op, call_sid, content, flag, ok) ==
    CASE op = "create_user" -> create_user("+15550100", ok)
      [] op = "get_user_by_phone" -> get_user_by_phone("+15550100", flag, ok)
      [] op = "create_call" -> create_call("db-user", call_sid, flag, ok)
      [] op = "update_call" -> update_call(CallIdOf(call_sid), "completed", ok)
      [] op = "create_transcription" ->
            create_transcription(CallIdOf(call_sid), content, ok)
      [] op = "get_transcription_by_call_id" ->
            get_transcription_by_call_id(CallIdOf(call_sid), ok)

\* one call of an operation by the relay
collaborator_call ==
    /\ Len(db.transcriptions) < MaxLines
    /\ \E op \in Operations, call_sid \in RegisteredSids, content \in Contents,
          flag \in BOOLEAN, ok \in BOOLEAN :
         LET r == operation(op, call_sid, content, flag, ok)
         IN  /\ db' = r.db
             /\ reply' = [op |-> op, store_raised |-> supabase_available /\ ~ok,
                           raised |-> r.raised, value |-> r.value]
    /\ UNCHANGED <<session_vars, final_vars, call_mapping, supabase_available,
                   transcription_service, bg_tasks>>

\* GET /calls/{call_id}/transcription, lines 983-1002
get_call_transcription(call_id) ==
    /\ \E ok \in BOOLEAN :
         LET r == get_transcription_by_call_id(call_id, ok)
         IN  reply' =
               IF r.raised
               THEN [op |-> "get_call_transcription", call_id |-> call_id,
                     status_code |-> 500, content |-> NoneValue]
               ELSE IF DOMAIN r.value = {}
               THEN [op |-> "get_call_transcription", call_id |-> call_id,
                     status_code |-> 404, content |-> NoneValue]
               ELSE [op |-> "get_call_transcription", call_id |-> call_id,
                     status_code |-> 200, content |-> r.value]
    /\ UNCHANGED <<session_vars, final_vars, call_mapping, supabase_available,
                   db, transcription_service, bg_tasks>>

\* ----------------------------------------------------------- the system
\* Spec: a session with the caller's audio, the transcription service and
\* the store; its upstream text events carry one text each, and upstream
\* sends no audio (SpecRelay has the audio of both directions).
RelayEvents ==
    {[type |-> "response.content.part", content |-> "P0"],
     [type |-> "input_audio_buffer.transcript", transcript |-> "I feel good"]}
    \cup PlainEvents

Next ==
    \/ \E call_sid \in CallSids : call_user(call_sid)
    \/ Connect
    \/ send_session_update
    \/ StartTasks
    \/ TwilioDisconnect
    \/ OpenAIDisconnect
    \/ \E message \in DownMessages : receive_from_twilio(message)
    \/ receive_disconnected
    \/ \E response \in RelayEvents : send_to_twilio(response)
    \/ send_disconnected
    \/ run_transcription_task
    \/ _process_audio_queue
    \/ process_task_cancelled
    \/ wait_and_cancel
    \/ finalize
    \/ final_transcribe
    \/ persist_and_close
    \/ close

Spec == Init /\ [][Next]_vars

\* SpecTranscript: a session without audio in either direction, with every
\* other upstream event; without frames no transcription task is created,
\* the service stays closed and its actions are never enabled.
NextTranscript ==
    \/ \E call_sid \in CallSids : call_user(call_sid)
    \/ Connect
    \/ send_session_update
    \/ StartTasks
    \/ TwilioDisconnect
    \/ OpenAIDisconnect
    \/ \E message \in DownMessages \ MediaMessages : receive_from_twilio(message)
    \/ receive_disconnected
    \/ \E response \in TextEvents \cup OtherEvents : send_to_twilio(response)
    \/ send_disconnected
    \/ wait_and_cancel
    \/ finalize
    \/ persist_and_close
    \/ close

SpecTranscript == Init /\ [][NextTranscript]_vars

\* SpecRelay: a session that only relays audio, up to MaxAudio messages
\* in the two directions together; no transcript text arrives, no call is
\* registered and the transcription tasks created at line 724 do not get
\* to run before the session ends.
InitRelay ==
    /\ SessionStart(MaxAudio, 0)
    /\ call_mapping = [call_sid_to_info |-> << >>, stream_sid_to_call_sid |-> << >>]
    /\ supabase_available = FALSE
    /\ reply = NoReply
    /\ db = [calls |-> << >>, transcriptions |-> << >>]
    /\ transcription_service = ServiceInit
    /\ bg_tasks = << >>

NextRelay ==
    \/ Connect
    \/ send_session_update
    \/ StartTasks
    \/ TwilioDisconnect
    \/ OpenAIDisconnect
    \/ \E message \in DownMessages : receive_from_twilio(message)
    \/ receive_disconnected
    \/ \E response \in AudioEvents \cup PlainEvents : send_to_twilio(response)
    \/ send_disconnected
    \/ wait_and_cancel
    \/ finalize
    \/ close

SpecRelay == InitRelay /\ [][NextRelay]_vars

\* SpecLive: the session of SpecRelay without audio and with the
\* assistant's text, under the scheduling of the event loop: a step of the
\* handler or of a loop that is ready to run is eventually run.  Nothing
\* obliges a peer to send a message or to disconnect.
LiveEvents ==
    {[type |-> "response.content.part", content |-> "P0"]} \cup PlainEvents

NextLive ==
    \/ Connect
    \/ send_session_update
    \/ StartTasks
    \/ TwilioDisconnect
    \/ OpenAIDisconnect
    \/ \E message \in DownMessages \ MediaMessages : receive_from_twilio(message)
    \/ receive_disconnected
    \/ \E response \in LiveEvents : send_to_twilio(response)
    \/ send_disconnected
    \/ wait_and_cancel
    \/ finalize
    \/ persist_and_close
    \/ close

Scheduling ==
    /\ WF_vars(Connect)
    /\ WF_vars(send_session_update)
    /\ WF_vars(StartTasks)
    /\ WF_vars(receive_disconnected)
    /\ WF_vars(send_disconnected)
    /\ WF_vars(wait_and_cancel)
    /\ WF_vars(finalize)
    /\ WF_vars(persist_and_close)
    /\ WF_vars(close)

SpecLive == InitRelay /\ [][NextLive]_vars /\ Scheduling

\* SpecPersist: a process in which up to two calls have been initiated
\* before the session's stream opens; the stream's start event names the
\* first of them, a call that was never registered, or no call.  The session
\* carries no audio and one assistant text.
PersistStarts ==
    {[event |-> "start", start |-> [streamSid |-> "MZ1"]]} \cup
    {[event |-> "start", start |-> [streamSid |-> "MZ1", callSid |-> c]] :
        c \in {"CA1", "CA3"}}

NextPersist ==
    \/ \E call_sid \in RegisteredSids : call_user(call_sid)
    \/ Connect
    \/ send_session_update
    \/ StartTasks
    \/ TwilioDisconnect
    \/ OpenAIDisconnect
    \/ \E message \in PersistStarts : receive_from_twilio(message)
    \/ receive_disconnected
    \/ \E response \in {[type |-> "response.content.part", content |-> "P0"]} :
          send_to_twilio(response)
    \/ send_disconnected
    \/ wait_and_cancel
    \/ finalize
    \/ persist_and_close
    \/ close

SpecPersist == Init /\ [][NextPersist]_vars

\* SpecAttribution: the sessions of SpecPersist, up to MaxSessions of them
\* one after the other in one process, calls being initiated before each.
NextAttribution ==
    \/ \E call_sid \in RegisteredSids : call_user(call_sid)
    \/ Connect
    \/ send_session_update
    \/ StartTasks
    \/ TwilioDisconnect
    \/ OpenAIDisconnect
    \/ \E message \in PersistStarts : receive_from_twilio(message)
    \/ receive_disconnected
    \/ \E response \in {[type |-> "response.content.part", content |-> "P0"]} :
          send_to_twilio(response)
    \/ send_disconnected
    \/ wait_and_cancel
    \/ finalize
    \/ persist_and_close
    \/ close
    \/ accept_next

SpecAttribution == Init /\ [][NextAttribution]_vars

\* SpecSessions: one process serving up to MaxSessions media streams one
\* after the other.  The first caller's audio reaches the transcription
\* service; later callers send no audio.  Upstream sends one assistant text.
InitSessions ==
    /\ SessionInit
    /\ call_mapping = [call_sid_to_info |-> << >>, stream_sid_to_call_sid |-> << >>]
    /\ supabase_available = FALSE
    /\ reply = NoReply
    /\ db = [calls |-> << >>, transcriptions |-> << >>]
    /\ transcription_service = ServiceInit
    /\ bg_tasks = << >>

NextSessions ==
    \/ Connect
    \/ send_session_update
    \/ StartTasks
    \/ TwilioDisconnect
    \/ OpenAIDisconnect
    \/ \E message \in MediaMessages : receive_from_twilio(message)
    \/ receive_disconnected
    \/ \E response \in {[type |-> "response.content.part", content |-> "P0"]} :
          send_to_twilio(response)
    \/ send_disconnected
    \/ run_transcription_task
    \/ _process_audio_queue
    \/ process_task_cancelled
    \/ wait_and_cancel
    \/ finalize
    \/ final_transcribe
    \/ persist_and_close
    \/ close
    \/ accept_next

SpecSessions == InitSessions /\ [][NextSessions]_vars

\* SpecStore: the collaborator and the transcription endpoint on their own,
\* with the store available or not; no media stream is served.
NextStore ==
    \/ collaborator_call
    \/ \E call_id \in CallIds : get_call_transcription(call_id)

SpecStore == Init /\ [][NextStore]_vars

\* SpecService: a session whose caller sends up to MaxAudio well-formed
\* audio frames, with the transcription service and its tasks; upstream
\* sends an assistant text and a user transcript, and no audio.  The store
\* is unavailable.
ServiceEvents ==
    {[type |-> "response.content.part", content |-> "P0"],
     [type |-> "input_audio_buffer.transcript", transcript |-> "I feel good"]}

NextService ==
    \/ Connect
    \/ send_session_update
    \/ StartTasks
    \/ TwilioDisconnect
    \/ OpenAIDisconnect
    \/ receive_from_twilio([event |-> "media", media |-> [payload |-> "QUI="]])
    \/ receive_disconnected
    \/ \E response \in ServiceEvents : send_to_twilio(response)
    \/ send_disconnected
    \/ run_transcription_task
    \/ _process_audio_queue
    \/ process_task_cancelled
    \/ wait_and_cancel
    \/ finalize
    \/ final_transcribe
    \/ persist_and_close
    \/ close

SpecService == InitRelay /\ [][NextService]_vars

\* SpecRecovery: the transcription service alone, through the sessions of a
\* process, as the handlers and their tasks use it.  reply keeps what the
\* last call of send_audio answered: calls counts the calls made so far,
\* errors the calls in a row that found the service in the error state (it
\* stops counting one past max_errors), restarted and queued what the call
\* did.
calls_made ==
    IF reply.op \in {"send_audio", "start", "stop"} THEN reply.calls ELSE 0

errors_in_a_row == IF reply.op = "send_audio" THEN reply.errors ELSE 0

\* lines 724 and 1117-1127: a task created for an audio frame runs
\* send_audio_for_transcription
transcription_task ==
    /\ calls_made < MaxCalls
    /\ \E audio_data \in FramePayloads :
         LET r == send_audio_for_transcription(transcription_service, audio_data)
         IN  /\ transcription_service' = r.svc
             /\ reply' =
                  [op |-> "send_audio",
                   calls |-> calls_made + 1,
                   errors |-> IF transcription_service.state # "error" THEN 0
                              ELSE IF errors_in_a_row > max_errors
                              THEN errors_in_a_row
                              ELSE errors_in_a_row + 1,
                   ret |-> r.ret,
                   restarted |-> r.svc.state = "ready",
                   queued |-> r.svc.queue > transcription_service.queue]
    /\ UNCHANGED <<session_vars, final_vars, call_mapping, supabase_available,
                   db, bg_tasks>>

\* lines 755-761 and 848-858: a session ends; the finally of
\* receive_from_twilio stops the service, then the handler awaits the final
\* continuous transcription when the buffer and the audio kept call for it
session_end ==
    /\ \E outcome \in TranscribeOutcomes :
         LET stopped == stop(transcription_service)
         IN  transcription_service' =
               IF stopped.buffer # << >> /\ stopped.continuous >= min_audio_length
               THEN transcribe_result(stopped, TRUE, outcome).svc
               ELSE stopped
    /\ UNCHANGED <<session_vars, final_vars, store_vars, bg_tasks>>

NextRecovery ==
    \/ transcription_task
    \/ _process_audio_queue
    \/ process_task_cancelled
    \/ session_end

SpecRecovery == InitRelay /\ [][NextRecovery]_vars

\* SpecLifecycle: the service alone, its methods called in any order and in
\* any state.  reply keeps the service as it was before the last call of
\* start or stop, and what start returned.
start_call ==
    /\ LET r == start(transcription_service)
       IN  /\ transcription_service' = r.svc
           /\ reply' = [op |-> "start", calls |-> calls_made,
                        before |-> transcription_service, ret |-> r.ret]
    /\ UNCHANGED <<session_vars, final_vars, call_mapping, supabase_available,
                   db, bg_tasks>>

stop_call ==
    /\ transcription_service' = stop(transcription_service)
    /\ reply' = [op |-> "stop", calls |-> calls_made,
                 before |-> transcription_service]
    /\ UNCHANGED <<session_vars, final_vars, call_mapping, supabase_available,
                   db, bg_tasks>>

NextLifecycle ==
    \/ start_call
    \/ stop_call
    \/ transcription_task
    \/ _process_audio_queue
    \/ process_task_cancelled

SpecLifecycle == InitRelay /\ [][NextLifecycle]_vars

\* SpecOther: a session fed up to MaxOther messages of types no branch of
\* either loop acts on, besides audio, a stream start, an assistant text and
\* a text that is not JSON.  The store is unavailable.
OtherTypeEvents == {[type |-> "session.updated"], [type |-> "response.done"]}

OtherTypeMessages == {[event |-> "mark"]}

OtherSessionEvents ==
    OtherTypeEvents \cup
    {[type |-> "response.content.part", content |-> "P0"],
     [type |-> "response.audio.delta", delta |-> "QUI="]}

InitOther ==
    /\ SessionStart(MaxFrames, MaxOther)
    /\ call_mapping = [call_sid_to_info |-> << >>, stream_sid_to_call_sid |-> << >>]
    /\ supabase_available = FALSE
    /\ reply = NoReply
    /\ db = [calls |-> << >>, transcriptions |-> << >>]
    /\ transcription_service = ServiceInit
    /\ bg_tasks = << >>

NextOther ==
    \/ Connect
    \/ send_session_update
    \/ StartTasks
    \/ TwilioDisconnect
    \/ OpenAIDisconnect
    \/ \E message \in DownMessages : receive_from_twilio(message)
    \/ receive_disconnected
    \/ \E response \in OtherSessionEvents : send_to_twilio(response)
    \/ send_disconnected
    \/ run_transcription_task
    \/ _process_audio_queue
    \/ process_task_cancelled
    \/ wait_and_cancel
    \/ finalize
    \/ final_transcribe
    \/ persist_and_close
    \/ close

SpecOther == InitOther /\ [][NextOther]_vars

\* ------------------------------------------------ the dedup step alone
\* SpecFinalize: lines 873-881 applied to a merged transcript of up to
\* MaxLen lines, and applied again to what they produced.
SomeLines == {"AI: P0", "User: I feel good", "User: Um "}

SeqsUpTo(S, n) == UNION {[1..k -> S] : k \in 0..n}

InitFinalize ==
    /\ SessionInit
    /\ call_mapping = [call_sid_to_info |-> << >>, stream_sid_to_call_sid |-> << >>]
    /\ supabase_available = FALSE
    /\ reply = NoReply
    /\ db = [calls |-> << >>, transcriptions |-> << >>]
    /\ transcription_service = ServiceInit
    /\ bg_tasks = << >>

\* the merged transcript reaches line 873
enter_dedup ==
    /\ pc = "accepted"
    /\ pc' = "dedup"
    /\ final_transcription' \in SeqsUpTo(SomeLines, MaxLen)
    /\ UNCHANGED <<stream_sid, full_transcription, websocket_closed,
                   twilio_receiver, openai_sender, twilio_conn, openai_conn,
                   openai_sent, twilio_sent, inbound, unique_transcription,
                   transcription_text, file_writes, last_transcription_text,
                   store_vars, transcription_service, bg_tasks>>

\* lines 873-881
dedup_and_join ==
    /\ pc \in {"dedup", "dedup again"}
    /\ pc' = IF pc = "dedup" THEN "deduped" ELSE "deduped again"
    /\ unique_transcription' = remove_duplicates(final_transcription)
    /\ transcription_text' = join(remove_duplicates(final_transcription))
    /\ UNCHANGED <<stream_sid, full_transcription, websocket_closed,
                   twilio_receiver, openai_sender, twilio_conn, openai_conn,
                   openai_sent, twilio_sent, inbound, final_transcription, file_writes,
                   last_transcription_text, store_vars, transcription_service,
                   bg_tasks>>

\* the lines produced are handed to lines 873-881 once more
feed_back ==
    /\ pc = "deduped"
    /\ pc' = "dedup again"
    /\ final_transcription' = unique_transcription
    /\ UNCHANGED <<stream_sid, full_transcription, websocket_closed,
                   twilio_receiver, openai_sender, twilio_conn, openai_conn,
                   openai_sent, twilio_sent, inbound, unique_transcription,
                   transcription_text, file_writes, last_transcription_text,
                   store_vars, transcription_service, bg_tasks>>

NextFinalize == enter_dedup \/ dedup_and_join \/ feed_back

SpecFinalize == InitFinalize /\ [][NextFinalize]_vars

\* ================================================================ claims
\* the handler has returned after both read loops were started (a handler
\* that fails before line 820 ends with pc = "failed")
Returned == pc = "returned"

\* the block of lines 838-959 has run: it writes the fallback file once
Flushes == Len(file_writes)

\* C1 as stated: every session whose loops started is finalized exactly
\* once, whichever loop ended first and whatever the transcript holds.
C1_ExactlyOnceAlways == Returned => Flushes = 1

\* C1: finalization runs at most once per session; the handler skips it
\* exactly when the session's lines and the service's buffer are both empty
\* at line 838, and otherwise has run it once when it returns.
C1_OnceUnlessNothingCaptured ==
    /\ [](/\ Flushes <= 1
          /\ pc \in {"accepted", "connected", "configured", "waiting",
                     "finalize", "transcribe", "close", "failed"} => Flushes = 0
          /\ pc = "persist" => Flushes = 1)
    /\ [][pc = "finalize" /\ pc' # "finalize" =>
            (pc' = "close" <=> /\ full_transcription = << >>
                               /\ transcription_service.buffer = << >>)]_vars
    /\ [][pc = "close" => Flushes' = 0]_vars
    /\ [][pc = "persist" => Flushes' = 1]_vars

\* the upstream loop ended first, the downstream loop was cancelled, and the
\* session was finalized once
C1_Witness ==
    /\ Returned
    /\ openai_sender = "done"
    /\ twilio_receiver = "cancelled"
    /\ Flushes = 1

\* C2 as stated: no session whose loops started returns without a flush
\* attempt, also when the transcript holds no line at all.
C2_FlushAttemptedAlways == Returned => file_writes # << >>

\* C2: a session that captured at least one line does not return without a
\* flush attempt for the text finalization produced; a session that returns
\* without one captured no line and stored nothing.
C2_FlushAttemptedWhenCaptured ==
    /\ Returned /\ full_transcription # << >> =>
          /\ file_writes # << >>
          /\ file_writes[1].content = transcription_text
          /\ last_transcription_text = transcription_text
    /\ Returned /\ file_writes = << >> =>
          /\ full_transcription = << >>
          /\ transcription_text = None
          /\ db.transcriptions = << >>

\* the downstream loop ended first and the flush was attempted with the
\* captured lines, although the fallback file could not be written
C2_Witness ==
    /\ Returned
    /\ twilio_receiver = "done"
    /\ openai_sender = "cancelled"
    /\ full_transcription = <<"AI: P0", "User: I feel good">>
    /\ file_writes = <<[name |-> "transcription_20250101_120000.txt",
                      content |-> "AI: P0\nUser: I feel good",
                      written |-> FALSE]>>

\* C3: a line appended to the session's transcript stays in it, and each of
\* them is in the text finalization produces, also when the loop that ended
\* did so through an exception.
C3_NoCapturedLineLost ==
    /\ [][/\ Len(full_transcription') >= Len(full_transcription)
          /\ SubSeq(full_transcription', 1, Len(full_transcription))
                = full_transcription]_vars
    /\ [](pc \in {"persist", "returned"} /\ full_transcription # << >> =>
            /\ \A i \in DOMAIN full_transcription :
                  full_transcription[i] \in Range(unique_transcription)
            /\ transcription_text = join(unique_transcription)
            /\ file_writes[1].content = transcription_text)

\* the upstream loop ended through what json.loads raised while upstream was
\* still open, the service held one consolidated line, and both captured
\* lines are in the text
C3_Witness ==
    /\ pc = "persist"
    /\ openai_sender = "done"
    /\ openai_conn = "open"
    /\ full_transcription = <<"AI: P0", "User: I feel good">>
    /\ transcription_service.buffer = <<"User: I feel good">>
    /\ unique_transcription = <<"User: I feel good", "AI: P0">>
    /\ transcription_text = "User: I feel good\nAI: P0"

\* position of the first occurrence of x in s
FirstIndex(s, x) == CHOOSE i \in DOMAIN s : s[i] = x /\ \A j \in 1..(i - 1) : s[j] # x

\* the lines of s separated by line breaks, built from the last line back
RECURSIVE NewlineSeparated(_)
NewlineSeparated(s) ==
    IF s = << >> THEN ""
    ELSE IF Len(s) = 1 THEN s[1]
    ELSE NewlineSeparated(SubSeq(s, 1, Len(s) - 1)) \o "\n" \o s[Len(s)]

\* C4: the finalized transcript holds each distinct line of the merged
\* transcript exactly once, duplicates removed whether adjacent or not, in
\* the order of the first occurrences, and the text is these lines joined
\* by line breaks.
C4_DedupKeepsFirstOccurrences ==
    pc = "deduped" =>
        /\ Range(unique_transcription) = Range(final_transcription)
        /\ \A i, j \in DOMAIN unique_transcription :
              i < j =>
                 /\ unique_transcription[i] # unique_transcription[j]
                 /\ FirstIndex(final_transcription, unique_transcription[i])
                      < FirstIndex(final_transcription, unique_transcription[j])
        /\ transcription_text = NewlineSeparated(unique_transcription)

\* a merged transcript with a duplicate that is not adjacent went through
C4_Witness ==
    /\ pc = "deduped"
    /\ final_transcription = <<"AI: P0", "User: I feel good", "AI: P0", "User: Um ">>
    /\ unique_transcription = <<"AI: P0", "User: I feel good", "User: Um ">>
    /\ transcription_text = "AI: P0\nUser: I feel good\nUser: Um "

\* C5: finalization is idempotent: the dedup and join step applied to its
\* own output gives that output again, lines and text.
C5_FinalizeIdempotent ==
    pc = "deduped again" =>
        /\ unique_transcription = final_transcription
        /\ transcription_text = join(final_transcription)

\* the step ran a second time, on the two lines its first run produced
C5_Witness ==
    /\ pc = "deduped again"
    /\ final_transcription = <<"User: I feel good", "AI: P0">>
    /\ unique_transcription = <<"User: I feel good", "AI: P0">>

\* a text with nothing but whitespace in it
is_blank(t) == strip(t) = ""

\* str.lower on the texts the model draws from
lower(t) ==
    CASE t = "Um" -> "um"
      [] t = "I feel good" -> "i feel good"
      [] OTHER -> t

\* user text that is short or a filler word once trimmed
NoiseWords == {"you", "bye", "hello", "uh", "um"}

is_noise(t) == Len(strip(t)) < 3 \/ lower(strip(t)) \in NoiseWords

\* the upstream events that carry a finalized transcript text
AIEvents == {r \in TextEvents : r.type = "response.content.part"}

UserEvents == {r \in TextEvents : r.type = "input_audio_buffer.transcript"}

BlankLines ==
    {"AI: " \o t : t \in {a \in AITexts : is_blank(a)}} \cup
    {"User: " \o t : t \in {u \in UserTexts : is_blank(u)}}

NoiseLines == {"User: " \o t : t \in {u \in UserTexts : is_noise(u)}}

PromptInjections == {"conversation.item.create", "response.create"}

\* C6: no line whose text is empty or only whitespace is ever in the
\* session's transcript.
C6_NoBlankTextStored ==
    \A i \in DOMAIN full_transcription : full_transcription[i] \notin BlankLines

\* C7 as stated: a user transcript whose trimmed text is shorter than three
\* characters or is a filler word never becomes a line of the transcript.
C7_NoiseNeverStored ==
    \A i \in DOMAIN full_transcription : full_transcription[i] \notin NoiseLines

\* C7: a user transcript event becomes the line "User: " and its text,
\* whatever the text, a short one or a filler word included; handling it
\* sends nothing upstream, so no prompt is injected.
C7_UserTextStoredUnfiltered ==
    [][\A r \in UserEvents :
         send_to_twilio(r) =>
            /\ full_transcription' = Append(full_transcription, "User: " \o r.transcript)
            /\ openai_sent' = openai_sent]_vars

\* the filler "Um " was stored, and upstream has seen the session update only
C7_Witness ==
    /\ openai_sender = "running"
    /\ full_transcription = <<"User: Um ">>
    /\ openai_sent = <<[type |-> "session.update"]>>

\* C10 as stated: once the assistant's P0 and then an accepted user text are
\* in the transcript, a prompt injection has been sent upstream.
C10_NextPromptInjected ==
    full_transcription = <<"AI: P0", "User: I feel good">> =>
        \E i \in DOMAIN openai_sent : openai_sent[i].type \in PromptInjections

\* C10: an assistant text P0 followed by a user text T leaves the transcript
\* <<"AI: P0", "User: T">> in this order; the handler sends nothing upstream
\* for either event, upstream only ever gets the session update and audio,
\* and the events response.audio_transcript.done and
\* conversation.item.input_audio_transcription.completed add no line.
C10_AssistantThenUserInOrder ==
    /\ [][\A r \in AIEvents :
            full_transcription = << >> /\ send_to_twilio(r) =>
               /\ full_transcription' = <<"AI: " \o r.content>>
               /\ openai_sent' = openai_sent]_vars
    /\ [][\A r \in UserEvents :
            full_transcription = <<"AI: P0">> /\ send_to_twilio(r) =>
               /\ full_transcription' = <<"AI: P0", "User: " \o r.transcript>>
               /\ openai_sent' = openai_sent]_vars
    /\ [][\A r \in OtherEvents :
            send_to_twilio(r) => full_transcription' = full_transcription]_vars
    /\ [](\A i \in DOMAIN openai_sent :
             openai_sent[i].type \in {"session.update", "input_audio_buffer.append"})

\* both events were handled and upstream has seen the session update only
C10_Witness ==
    /\ openai_sender = "running"
    /\ full_transcription = <<"AI: P0", "User: I feel good">>
    /\ openai_sent = <<[type |-> "session.update"]>>

DoneEvents == {[type |-> "response.audio_transcript.done", transcript |-> "P0"]}

AILines == {"AI: " \o t : t \in AITexts}

\* C11 as stated: every response.audio_transcript.done event read so far has
\* put one assistant line into the session's transcript.
C11_DoneEventAddsLine ==
    Len(inbound.finals)
       <= Cardinality({i \in DOMAIN full_transcription :
                          full_transcription[i] \in AILines})

\* C11: a response.audio_transcript.done event adds no line and changes
\* nothing the session keeps; there is no delta accumulator and no
\* awaiting_answer flag.  An assistant line comes from a
\* response.content.part event with content only, one line for each.
C11_DoneEventIgnored ==
    /\ [][\A r \in DoneEvents :
            send_to_twilio(r) =>
               UNCHANGED <<pc, stream_sid, full_transcription, websocket_closed,
                           twilio_receiver, openai_sender, openai_sent,
                           twilio_sent, final_vars>>]_vars
    /\ [][\A r \in AIEvents :
            send_to_twilio(r) =>
               full_transcription' = Append(full_transcription, "AI: " \o r.content)]_vars
    /\ [][Len(full_transcription') > Len(full_transcription) =>
            \E r \in TextEvents : send_to_twilio(r)]_vars

\* a done event for P0 was read while the loop runs, and no line was stored
C11_Witness ==
    /\ openai_sender = "running"
    /\ inbound.finals = <<"P0">>
    /\ full_transcription = << >>

\* the payloads of the input_audio_buffer.append messages sent upstream, in
\* the order they were sent
AppendPayloads ==
    LET appends == SelectSeq(openai_sent,
                      LAMBDA m : m.type = "input_audio_buffer.append")
    IN  [i \in 1..Len(appends) |-> appends[i].audio]

\* C12 as stated: the append messages sent upstream carry the payloads of
\* the media frames read from downstream, one each, in arrival order.
C12_EveryFrameForwarded == AppendPayloads = inbound.frames

\* C12: a media frame read while the upstream connection is open is sent
\* upstream as one append message with the identical payload, in arrival
\* order, never duplicated or reordered; a frame read once upstream is no
\* longer open is dropped.
C12_FramesForwardedWhileUpstreamOpen ==
    /\ [][\A m \in MediaMessages :
            receive_from_twilio(m) =>
               IF openai_conn = "open"
               THEN openai_sent' =
                      Append(openai_sent, [type |-> "input_audio_buffer.append",
                                           audio |-> m.media.payload])
               ELSE openai_sent' = openai_sent]_vars
    /\ [](/\ Len(AppendPayloads) <= Len(inbound.frames)
          /\ AppendPayloads = SubSeq(inbound.frames, 1, Len(AppendPayloads)))

\* two frames with different payloads went upstream in their order
C12_Witness ==
    /\ twilio_receiver = "running"
    /\ inbound.frames = <<"QUI", "QUI=">>
    /\ openai_sent = <<[type |-> "session.update"],
                       [type |-> "input_audio_buffer.append", audio |-> "QUI"],
                       [type |-> "input_audio_buffer.append", audio |-> "QUI="]>>

\* the upstream events that carry an audio chunk
ChunkEvents == {r \in AudioEvents : r.delta # ""}

\* the payloads of the media messages sent downstream, in order
MediaPayloads == [i \in 1..Len(twilio_sent) |-> twilio_sent[i].media.payload]

\* what a chunk's payload is sent as: base64 text in canonical form is sent
\* as it is, a trailing line break is lost, a wrong padding cannot be sent
SentAs(delta) ==
    CASE delta = "QUI=" -> <<"QUI=">>
      [] delta = "QUI=\n" -> <<"QUI=">>
      [] delta = "QUI" -> << >>

\* C13 as stated, for a downstream channel that has been open all along:
\* every chunk read was forwarded with its payload unchanged.
C13_ChunksForwardedVerbatim ==
    twilio_conn = "open" => MediaPayloads = inbound.chunks

\* C13: a chunk read while websocket_closed is not set and the downstream
\* socket is open is sent downstream, its payload decoded and encoded again
\* (unchanged when it was canonical base64, not sent at all when it does not
\* decode); a chunk read once the socket has closed or the flag is set is
\* dropped; no chunk ends the upstream loop, and nothing is sent downstream
\* after the flag is set or the socket has closed.
C13_ChunkForwardedOrDropped ==
    /\ [][\A r \in ChunkEvents :
            send_to_twilio(r) =>
               /\ openai_sender' = "running"
               /\ IF ~websocket_closed /\ twilio_conn = "open"
                  THEN twilio_sent' =
                         twilio_sent \o
                         [i \in 1..Len(SentAs(r.delta)) |->
                            [event |-> "media", streamSid |-> stream_sid,
                             media |-> [payload |-> SentAs(r.delta)[i]]]]
                  ELSE twilio_sent' = twilio_sent]_vars
    /\ [][websocket_closed \/ twilio_conn = "closed" =>
            twilio_sent' = twilio_sent]_vars

\* one chunk went downstream, the caller hung up, and the next chunk was
\* dropped with the upstream loop still running
C13_Witness ==
    /\ openai_sender = "running"
    /\ twilio_conn = "closed"
    /\ websocket_closed
    /\ inbound.chunks = <<"QUI=", "QUI=">>
    /\ MediaPayloads = <<"QUI=">>


\* --------------------------------------------------------------- C14
\* inbound texts that are not JSON, on either channel
Malformed == {[raw |-> "{"]}

\* C14: a malformed inbound message on either channel is skipped: the read
\* loop that received it keeps running and the session is not terminated
\* by it (the handler does not leave its wait because of it)
C14_MalformedMessageSkipped ==
    [][\A m \in Malformed :
          /\ receive_from_twilio(m) => twilio_receiver' = "running"
          /\ send_to_twilio(m) => openai_sender' = "running"]_vars

\* --------------------------------------------------------------- C15
\* C15: when connecting upstream or sending the configuration fails, the
\* session never reaches steady state: neither read loop is started, no
\* audio is forwarded in either direction, and the handler stays ended (the
\* connection is not attempted again)
C15_StartupFailureIsFatal ==
    /\ [](pc = "failed" =>
            /\ twilio_receiver = "unstarted"
            /\ openai_sender = "unstarted"
            /\ AppendPayloads = << >>
            /\ twilio_sent = << >>
            /\ inbound.frames = << >> /\ inbound.chunks = << >>)
    /\ [][pc = "connected" /\ openai_conn # "open" /\ pc' # pc
            => pc' = "failed"]_vars
    /\ [][pc = "failed" =>
            /\ pc' = "failed"
            /\ openai_conn' = openai_conn
            /\ openai_sent' = openai_sent]_vars

\* the configuration could not be sent: the connection was lost before it
C15_Witness ==
    pc = "failed" /\ openai_conn = "closed" /\ twilio_conn = "closed"

\* --------------------------------------------------------------- C16
\* positions of the session.update message on the upstream channel
ConfigIndexes ==
    {i \in DOMAIN openai_sent : openai_sent[i].type = "session.update"}

\* C16: the session-configuration message is the first message sent
\* upstream, and is sent exactly once: nothing else is ever at position 1,
\* no second one follows, and both read loops start only after it is sent
C16_ConfigurationFirstAndOnce ==
    /\ ConfigIndexes \subseteq {1}
    /\ openai_sent # << >> => ConfigIndexes = {1}
    /\ twilio_receiver # "unstarted" \/ openai_sender # "unstarted"
          => ConfigIndexes = {1}

\* an append-audio message has followed the configuration
C16_Witness ==
    /\ Len(openai_sent) >= 2
    /\ openai_sent[1].type = "session.update"
    /\ openai_sent[2].type = "input_audio_buffer.append"

\* --------------------------------------------------------------- C17
\* the handler is past its wait: finalization has started or is over
Finalizing == pc \in {"finalize", "transcribe", "persist", "close", "returned"}

\* C17: once a loop has exited the other is cancelled and awaited before
\* finalization starts; from then on neither loop is running, no message
\* is forwarded in either direction and no line is appended
C17_LoopsQuiescentFromFinalization ==
    /\ [](Finalizing =>
            /\ twilio_receiver \in {"done", "cancelled"}
            /\ openai_sender \in {"done", "cancelled"}
            /\ "done" \in {twilio_receiver, openai_sender})
    /\ [][Finalizing =>
            /\ openai_sent' = openai_sent
            /\ twilio_sent' = twilio_sent
            /\ full_transcription' = full_transcription
            /\ twilio_receiver' = twilio_receiver
            /\ openai_sender' = openai_sender]_vars

\* finalization has started with one loop cancelled, after audio was
\* relayed and a line captured
C17_Witness ==
    /\ pc = "finalize"
    /\ "cancelled" \in {twilio_receiver, openai_sender}
    /\ AppendPayloads # << >>
    /\ full_transcription # << >>

\* --------------------------------------------------------------- C18
\* a peer has dropped one of the session's channels
Disconnected ==
    /\ pc \in {"connected", "configured", "waiting"}
    /\ twilio_conn = "closed" \/ openai_conn = "closed"

\* something was captured for the transcript
Captured == full_transcription # << >> \/ transcription_service.buffer # << >>

\* C18 as claimed: after either channel disconnects the session eventually
\* has finalized its transcript, has closed its channels and the handler
\* has returned
C18_DisconnectLeadsToFinalizedReturn ==
    Disconnected ~> (Returned /\ transcription_text # None
                              /\ openai_conn = "closed"
                              /\ twilio_conn = "closed")

\* C18 as the handler does it: after either channel disconnects the handler
\* eventually ends, by returning or by the exception of a failed start-up;
\* when it returns the upstream channel is closed, and the transcript has
\* been finalized exactly when something was captured
C18_DisconnectLeadsToReturn ==
    /\ Disconnected ~> (Returned \/ pc = "failed")
    /\ [](Returned => /\ openai_conn = "closed"
                      /\ transcription_text # None <=> Captured)

\* returned after the downstream peer dropped, the transcript finalized,
\* the upstream channel closed by the handler
C18_Witness ==
    /\ Returned
    /\ twilio_conn = "closed"
    /\ transcription_text # None
    /\ openai_conn = "closed"

\* --------------------------------------------------------------- C19
\* the calls the store holds a transcription for, and the calls marked
\* completed
TranscribedCalls == {db.transcriptions[i].call_id : i \in DOMAIN db.transcriptions}

CompletedCalls == {c \in DOMAIN db.calls : db.calls[c] = "completed"}

\* C19 as claimed: when the stream does not resolve to a registered call, no
\* transcription record is created and no call record is updated
C19_UnresolvedStreamPersistsNothing ==
    Returned /\ direct_call_id = None =>
        TranscribedCalls = {} /\ CompletedCalls = {}

\* C19 as the handler does it: when the stream does not resolve to a
\* registered call, the transcript is attributed to the most recently
\* registered call; a record is created or a call updated for that call
\* only, and for none when no call is registered
C19_UnresolvedStreamFallsBackToMostRecent ==
    Returned /\ direct_call_id = None =>
        /\ TranscribedCalls \subseteq {most_recent_call_id} \ {None}
        /\ CompletedCalls \subseteq {most_recent_call_id} \ {None}

\* two calls are registered, the stream named neither, and the transcript
\* was stored for the later one
C19_Witness ==
    /\ Returned
    /\ direct_call_id = None
    /\ Cardinality(DOMAIN call_mapping.call_sid_to_info) = 2
    /\ stream_sid # None
    /\ TranscribedCalls = {most_recent_call_id}
    /\ CompletedCalls = {most_recent_call_id}

\* --------------------------------------------------------------- C20
\* C20: a registry entry call_sid_to_info[call_sid], once written at call
\* initiation, is not modified and not removed by any step of any handler
C20_RegistryEntryNeverMutated ==
    [][\A c \in DOMAIN call_mapping.call_sid_to_info :
          /\ c \in DOMAIN call_mapping'.call_sid_to_info
          /\ call_mapping'.call_sid_to_info[c] =
                call_mapping.call_sid_to_info[c]]_vars

\* a session has read the registry and stored its transcript for a
\* registered call, after a second call was registered
C20_Witness ==
    /\ Returned
    /\ Cardinality(DOMAIN call_mapping.call_sid_to_info) = 2
    /\ direct_call_id # None
    /\ TranscribedCalls = {direct_call_id}

\* --------------------------------------------------------------- C21
\* C21: the transcript finalized for a session consists only of lines
\* captured from that session's own events; in a session whose caller sent
\* no audio these are the lines of its own full_transcription, so its
\* transcript holds no line of an earlier session
C21_TranscriptFromOwnSessionOnly ==
    inbound.frames = << >> =>
        Range(unique_transcription) \subseteq Range(full_transcription)

\* --------------------------------------------------------------- C22
\* the last open/write of the fallback file
LastWrite == file_writes[Len(file_writes)]

C23_FallbackFileNamesDistinct ==
    \A i, j \in DOMAIN file_writes :
        i # j => file_writes[i].name # file_writes[j].name

\* --------------------------------------------------------------- C24
\* C24: whatever create_transcription and update_call do (store, fail,
\* answer a sentinel), the handler leaves the persistence step only by
\* closing the upstream channel and returning, and the fallback file
\* written before is kept
C24_PersistenceFailureNotFatal ==
    /\ [][pc = "persist" /\ pc' # pc =>
            /\ pc' = "returned"
            /\ openai_conn' = "closed"]_vars
    /\ [][(pc = "persist" \/ pc = "returned") =>
            file_writes' = file_writes]_vars
    /\ [](Returned => openai_conn = "closed")

\* a call was resolved, neither collaborator call stored anything, and the
\* handler has returned with the upstream channel closed and the file kept
C24_Witness ==
    /\ Returned
    /\ supabase_available
    /\ resolved_call_id # None
    /\ db.transcriptions = << >>
    /\ CompletedCalls = {}
    /\ openai_conn = "closed"
    /\ file_writes # << >>
    /\ LastWrite.content = transcription_text

\* --------------------------------------------------------------- C25
\* the placeholders of supabase_client.py: a dict with a dummy id, or, for
\* update_call, the dict holding nothing but the id it was given
DummyIds == {"dummy-user-id", "dummy-call-id", "dummy-transcription-id"}

IsPlaceholder(r) ==
    /\ "id" \in DOMAIN r.value
    /\ \/ r.value.id \in DummyIds
       \/ r.op = "update_call" /\ DOMAIN r.value = {"id"}

\* C25: an operation of the collaborator never raises to the relay, and
\* returns its placeholder both when the store is marked unavailable and
\* when the store call throws
C25_CollaboratorNeverRaises ==
    reply.op \in Operations =>
        /\ ~reply.raised
        /\ ~supabase_available \/ reply.store_raised => IsPlaceholder(reply)

\* the store threw under create_transcription, which answered its placeholder
C25_Witness ==
    /\ reply.op = "create_transcription"
    /\ reply.store_raised
    /\ ~reply.raised
    /\ IsPlaceholder(reply)

\* --------------------------------------------------------------- C29
\* C29: GET /calls/{id}/transcription answers 200 with a transcript stored
\* for call id when one exists and 404 when none exists; it never answers
\* 200 with content that was not stored for that call
C29_EndpointAnswersWhatIsStored ==
    [][reply'.op = "get_call_transcription" =>
          IF rows_of(reply'.call_id) # << >>
          THEN /\ reply'.status_code = 200
               /\ reply'.content \in Range(rows_of(reply'.call_id))
          ELSE reply'.status_code = 404]_vars

\* --------------------------------------------------------------- C26
\* the transcript a snapshot taken when finalization started would give
FromSnapshot ==
    remove_duplicates(merge(full_transcription, inbound.at_finalize))

\* C26 as claimed: the finalized transcript is the dedup of the lines and
\* of the service's buffer as they were when finalization started
C26_FinalizedFromSnapshot ==
    transcription_text # None => unique_transcription = FromSnapshot

\* C26 as the handler does it: the session's lines do not change once
\* finalization has started, but the service's buffer is read when the final
\* transcription awaited at line 854 has returned, so the finalized
\* transcript is the dedup of the lines merged with the buffer as it is
\* then, whatever was appended to it or replaced in it meanwhile
C26_FinalizedFromLinesAndLatestBuffer ==
    /\ [][pc # "persist" /\ pc' = "persist" =>
            unique_transcription' =
                remove_duplicates(merge(full_transcription,
                                        transcription_service'.buffer))]_vars
    /\ [][Finalizing => full_transcription' = full_transcription]_vars
    /\ [](transcription_text # None =>
            /\ unique_transcription = remove_duplicates(final_transcription)
            /\ transcription_text = join(unique_transcription))

\* the buffer changed between the start of finalization and the flush, and
\* the finalized transcript is not the one of the snapshot
C26_Witness ==
    /\ pc = "persist"
    /\ inbound.at_finalize # << >>
    /\ transcription_service.buffer # inbound.at_finalize
    /\ unique_transcription # FromSnapshot

\* --------------------------------------------------------------- C27
\* the order of first appearance of a and b in s
Before(s, a, b) == FirstIndex(s, a) < FirstIndex(s, b)

\* lines that came into being only after finalization had started: neither
\* a line of the session nor in the service's buffer at that moment
LateLines ==
    {l \in Range(unique_transcription) :
        l \notin Range(full_transcription) /\ l \notin Range(inbound.at_finalize)}

\* C27 as claimed: the finalized transcript lists the lines in the order in
\* which they were appended: two lines of the session keep their append
\* order, and a line that appeared during finalization is behind every line
\* of the session
C27_AppendOrderKept ==
    transcription_text # None =>
        /\ \A a, b \in Range(full_transcription) :
              Before(full_transcription, a, b) => Before(unique_transcription, a, b)
        /\ \A a \in Range(full_transcription), l \in LateLines :
              Before(unique_transcription, a, l)

\* the finalized transcript before dedup starts with the single line of a
\* consolidated buffer
ConsolidatedFirst ==
    /\ Len(final_transcription) = Len(full_transcription) + 1
    /\ startswith_User(final_transcription[1])
    /\ SubSeq(final_transcription, 2, Len(final_transcription)) = full_transcription

\* C27 as the handler does it: the session's lines come in append order with
\* the buffer's lines behind them in buffer order, except that a buffer
\* holding a single "User:" line is placed first, ahead of every line of the
\* session; dedup then keeps first occurrences, so the other lines of the
\* session keep their append order
C27_AppendOrderExceptConsolidated ==
    transcription_text # None =>
        /\ unique_transcription = remove_duplicates(final_transcription)
        /\ \/ SubSeq(final_transcription, 1, Len(full_transcription))
                 = full_transcription
           \/ ConsolidatedFirst
        /\ \A a, b \in Range(full_transcription) :
              /\ Before(full_transcription, a, b)
              /\ ~(ConsolidatedFirst /\ b = final_transcription[1])
              => Before(unique_transcription, a, b)

\* a user line of the session, appended after the assistant's, stands first
\* in the finalized transcript because the consolidated buffer line equals it
C27_Witness ==
    /\ transcription_text # None
    /\ full_transcription = <<"AI: P0", "User: I feel good">>
    /\ unique_transcription = <<"User: I feel good", "AI: P0">>

\* --------------------------------------------------------------- C30
\* C30: recovery attempts are bounded by max_errors: a call of send_audio
\* that finds the service in the error state for the (max_errors + 1)-th
\* time in a row gives up: it returns False and leaves the service stopped,
\* without restarting it or queueing the audio
C30_RecoveryAttemptsBounded ==
    reply.op = "send_audio" /\ reply.errors > max_errors =>
        /\ reply.ret = "False"
        /\ ~reply.restarted
        /\ ~reply.queued

\* --------------------------------------------------------------- C28
\* C28: an upstream event of a type other than the transcript events and
\* the audio chunk changes no session state (transcript, stream id, closed
\* flag), sends no message on either channel, and the upstream loop goes on;
\* a downstream message of a type other than audio frame and stream start
\* is ignored likewise and the downstream loop goes on
C28_OtherTypesIgnored ==
    [][/\ \A response \in OtherTypeEvents :
            send_to_twilio(response) =>
               /\ UNCHANGED <<full_transcription, stream_sid, websocket_closed,
                              twilio_sent, openai_sent, call_mapping>>
               /\ openai_sender' = "running"
       /\ \A message \in OtherTypeMessages :
            receive_from_twilio(message) =>
               /\ UNCHANGED <<full_transcription, stream_sid, websocket_closed,
                              twilio_sent, openai_sent, call_mapping, bg_tasks,
                              transcription_service>>
               /\ twilio_receiver' = "running"]_vars

\* both loops have read a message of another type and still run; nothing
\* has been recorded or sent for it
C28_Witness ==
    /\ inbound.ignored = {"upstream", "downstream"}
    /\ twilio_receiver = "running"
    /\ openai_sender = "running"
    /\ full_transcription = << >>
    /\ stream_sid = None
    /\ ~websocket_closed
    /\ twilio_sent = << >>
    /\ inbound.frames = << >>

\* --------------------------------------------------------------- C31
\* C31: whenever the service's state is ready, a live processing task
\* exists: one that was created and has neither finished nor been cancelled
C31_ReadyHasLiveTask ==
    transcription_service.state = "ready" =>
        transcription_service.task = "running"

\* --------------------------------------------------------------- C32
\* C32: at most one processing task of the service is alive at any time,
\* whatever the order of the start, stop and send_audio calls of the
\* sessions and of their tasks
C32_AtMostOneProcessingTask ==
    transcription_service.alive <= 1

\* the service has been stopped and started again while its first
\* processing task was still to end, and one task is alive
C32_Witness ==
    /\ transcription_service.state = "ready"
    /\ transcription_service.task = "cancelling"
    /\ transcription_service.alive = 1

\* --------------------------------------------------------------- C33
\* C33: start() changes the service only when its state is closed: called
\* in state closed it leaves state ready and error_count 0, called in any
\* other state it leaves state, task and error_count as they were and
\* returns None; the state is always closed, ready or error, and
\* "initializing" is never the state another task finds
C33_StartOnlyFromClosed ==
    /\ [](transcription_service.state \in {"closed", "ready", "error"})
    /\ [][start_call =>
            IF transcription_service.state = "closed"
            THEN /\ transcription_service'.state = "ready"
                 /\ transcription_service'.error_count = 0
                 /\ reply'.ret = "True"
            ELSE /\ transcription_service' = transcription_service
                 /\ reply'.ret = None]_vars

\* start() was called on the service in the error state and left it there
C33_Witness ==
    /\ reply.op = "start"
    /\ reply.before.state = "error"
    /\ reply.ret = None
    /\ transcription_service = reply.before

\* --------------------------------------------------------------- C34
\* C34: stop() in state closed changes nothing; in any other state it
\* cancels the running processing task and leaves state closed, error_count
\* 0 and accumulated_audio empty, while the transcript buffer, the
\* continuous audio and the queued audio stay as they were
C34_StopFrame ==
    [][stop_call =>
         IF transcription_service.state = "closed"
         THEN transcription_service' = transcription_service
         ELSE /\ transcription_service'.state = "closed"
              /\ transcription_service'.error_count = 0
              /\ transcription_service'.accumulated = 0
              /\ transcription_service'.task =
                    IF transcription_service.task = "running" THEN "cancelling"
                    ELSE transcription_service.task
              /\ transcription_service'.alive = transcription_service.alive
              /\ transcription_service'.buffer = transcription_service.buffer
              /\ transcription_service'.continuous = transcription_service.continuous
              /\ transcription_service'.queue = transcription_service.queue]_vars

\* stop() was called on a ready service with a running task, audio
\* accumulated, audio queued and a line in the buffer: the task is being
\* cancelled, the accumulated audio is gone, the rest is kept
C34_Witness ==
    /\ reply.op = "stop"
    /\ reply.before.state = "ready"
    /\ reply.before.task = "running"
    /\ reply.before.accumulated > 0
    /\ reply.before.queue > 0
    /\ reply.before.buffer # << >>
    /\ transcription_service.state = "closed"
    /\ transcription_service.task = "cancelling"
    /\ transcription_service.accumulated = 0
    /\ transcription_service.queue = reply.before.queue
    /\ transcription_service.buffer = reply.before.buffer
    /\ transcription_service.continuous = reply.before.continuous

\* --------------------------------------------------------------- C35
\* C35: once the downstream read loop of the session has ended and stopped
\* the service, the service stays closed and gets no new processing task
\* for the rest of that session: a send_audio_for_transcription task the
\* session left pending does not restart it
C35_StoppedServiceStaysClosed ==
    twilio_receiver \in {"done", "cancelled"} =>
        /\ transcription_service.state = "closed"
        /\ transcription_service.task # "running"

\* --------------------------------------------------------------- C36
\* C36: every media message sent downstream carries the stream identifier
\* of the session's stream-start event; none is sent with streamSid unset,
\* whatever the order of the start event and the upstream audio chunks
C36_MediaCarriesStreamSid ==
    \A i \in DOMAIN twilio_sent :
        twilio_sent[i].event = "media" => twilio_sent[i].streamSid \in StreamSids

\* --------------------------------------------------------------- C37
\* C37: with the store available, once the handler of a session whose start
\* event named a registered call has returned, that call is marked
\* completed, whatever the transcript the session captured, an empty one
\* included
C37_TerminatedCallCompleted ==
    Returned /\ supabase_available /\ direct_call_id # None =>
        direct_call_id \in CompletedCalls

\* --------------------------------------------------------------- C38
\* the transcription records stored under call id c
RecordsOf(c) == {i \in DOMAIN db.transcriptions : db.transcriptions[i].call_id = c}

\* C38 as claimed: over any sequence of sessions at most one transcription
\* record is created for a call id
C38_OneTranscriptionPerCall ==
    \A c \in CallIds : Cardinality(RecordsOf(c)) <= 1

\* C38 as the handler does it: a session creates at most one transcription
\* record, during its finalization and under the call id it resolved (by
\* the call SID of its start event, else the most recently registered
\* call); a call id holds at most one record per session served, and two
\* sessions that resolve to the same call id both store under it
C38_OneTranscriptionPerSession ==
    /\ [](\A c \in CallIds : Cardinality(RecordsOf(c)) <= inbound.served + 1)
    /\ [][db'.transcriptions # db.transcriptions =>
            /\ pc = "persist"
            /\ db'.transcriptions =
                  Append(db.transcriptions,
                         [call_id |-> resolved_call_id,
                          content |-> transcription_text])]_vars

\* the second session of the process has returned and the store holds two
\* transcription records under the id of the one registered call
C38_Witness ==
    /\ Returned
    /\ inbound.served = 1
    /\ Cardinality(DOMAIN call_mapping.call_sid_to_info) = 1
    /\ Len(db.transcriptions) = 2
    /\ db.transcriptions[1].call_id = db.transcriptions[2].call_id

\* --------------------------------------------------------------- C39
\* the step in which a finalization reaches the store
Persisting == pc = "persist" /\ pc' # "persist"

\* C39: a call is set to completed only during finalization, and only after
\* create_transcription was invoked for the same call id in that
\* finalization: no update_call(status = completed) is issued for a call id
\* without create_transcription invoked for it first
C39_CompletedOnlyAfterTranscription ==
    /\ [][CompletedCalls' # CompletedCalls =>
            /\ Persisting
            /\ CompletedCalls' \ CompletedCalls \subseteq
                  {reply'.invoked[j].call_id : j \in DOMAIN reply'.invoked}]_vars
    /\ [][Persisting =>
            \A j \in DOMAIN reply'.invoked :
               reply'.invoked[j].op = "update_call" =>
                  /\ reply'.invoked[j].status = "completed"
                  /\ \E i \in 1..(j - 1) :
                        /\ reply'.invoked[i].op = "create_transcription"
                        /\ reply'.invoked[i].call_id = reply'.invoked[j].call_id]_vars

\* a finalization invoked create_transcription and then update_call for the
\* call of its stream; the store refused the transcription and took the
\* update
C39_Witness ==
    /\ Returned
    /\ reply.op = "finalization"
    /\ Len(reply.invoked) = 2
    /\ direct_call_id # None
    /\ CompletedCalls = {direct_call_id}
    /\ TranscribedCalls = {}
====
